---- MODULE Spec2Model ----
(***************************************************************************)
(* Record linkage of survey responses and chat conversations               *)
(* (lukketsvane/nhh-esperanto).                                            *)
(*                                                                         *)
(* Spec models scripts/merge_datasets.py: match_by_explicit_id, then       *)
(* match_by_timestamp (same-date pass, then the pass over the remaining    *)
(* surveys), then clean_dataset's match columns.  One step of a loop of    *)
(* the code is one action, so that "at the moment a pair is accepted" is a *)
(* step of the model.                                                      *)
(*                                                                         *)
(* Times are whole seconds since the epoch.  A local date is the day       *)
(* number of the time (datetime.fromtimestamp on a machine set to UTC).    *)
(* Text is a sequence of characters, written as a tuple of small numbers,  *)
(* so that Python's substring test `a in b` is a test on sequences.        *)
(* Confidences are kept in hundredths (99.9 is 9990), which is what        *)
(* round(x, 2) leaves.                                                     *)
(***************************************************************************)
EXTENDS Integers, Sequences, FiniteSets, TLC

\* ------------------------------------------------------------------ bounds
\* Number of survey rows and of conversations in the input tables.
MaxSurveys == 2
MaxConvs == 2

\* Number of messages of a conversation given to the metrics aggregators.
MaxMsgs == 3

\* Number of rows of the finalized table given to fix_cross_date_mismatches.
MaxFixRows == 3

\* ------------------------------------------------------- program constants
TIMESTAMP_TOLERANCE == 86400

\* float('nan') / None in a numeric column: pd.isna is true of it, and every
\* comparison with it is false.
NaN == -1

\* conversation_id = None
NoConv == 0

\* A create_time that is not a number: float() of it raises ValueError.
NonNumeric == -2

\* ------------------------------------------------------------ input values
\* start_time_unix of a survey row: 2023-11-26 12:00 and 23:00 UTC.
SurveyTimes == {1701000000, 1701039600}

\* create_time of a conversation: 2023-11-26 12:15 and 22:00, 2023-11-27 00:30
\* and 13:00.
ConvTimes == {1701000900, 1701036000, 1701045000, 1701090000}

\* ResponseId values of the survey table.
ResponseIds == {<<1>>, <<2>>, <<1, 2>>}

\* First user message of a conversation.
Messages == {"login", "hello", "My ID is 1", "My ID is 12"}

VARIABLES
    survey_data,        \* the survey table: ResponseId, start_time_unix
    conv_data,          \* the conversations, in unique_conversation_ids order
    result_data,        \* the match columns of result_data, one row per survey
    pc,                 \* the statement the pipeline is at
    cursor,             \* position of the running loop
    order,              \* the rows the running loop visits, in its order
    unmatched_conv_ids, \* match_by_timestamp's list of free conversations
    cleaned_data,       \* clean_dataset's columns, <<>> before it has run
    final_data,         \* generate_final_dataset's table, <<>> before
    df_unified,         \* create_unified_complete_dataset's table, <<>> before
    scored,             \* SpecConfidence: the last two deltas scored, and by what
    finalized_df,       \* SpecRematch: the finalized table a re-matching script reads
    conv_df,            \* SpecRematch: the conversations it reads
    rm_pc,              \* SpecRematch: the statement the script is at
    tier,               \* SpecRematch: position in the list of tolerances
    rm_cursor,          \* SpecRematch: position of the loop over conversations
    current_unmatched,  \* SpecRematch: the survey rows offered in this tier
    current_available,  \* SpecRematch: the conversations visited in this tier
    all_new_matches,    \* SpecRematch: the accepted new matches, in order
    unified_df,         \* SpecPromptdata: the unified table read
    all_conversations,  \* SpecPromptdata: the conversations of the CSN folders
    pd_pc,              \* SpecPromptdata: the statement main is at
    pd_cursor,          \* SpecPromptdata: position of the loop over conversations
    matches,            \* SpecPromptdata: the accepted matches, in order
    matched_conv_ids,   \* SpecPromptdata: conversations matched in this run
    matched_response_ids, \* SpecPromptdata: responses matched in this run
    updated_df,         \* SpecPromptdata: the table written, <<>> before
    conv_messages,      \* SpecMetrics: the messages of one linked conversation
    row_metrics,        \* SpecMetrics: what extract_conversation_metrics left
    stats,              \* SpecMetrics: what calculate_conversation_stats gave
    fix_finalized_df,   \* SpecFix: the finalized table read
    fix_conv_df,        \* SpecFix: the conversations read
    fix_pc,             \* SpecFix: the statement main is at
    cross_date_matches, \* SpecFix: the matched rows whose dates differ
    fix_cursor,         \* SpecFix: position of the loop over the mismatches
    fixes,              \* SpecFix: the fixes found, in order
    finalized_updated,  \* SpecFix: the table written, <<>> when none is
    message,            \* SpecExtract: the message given to the extractor
    stated,             \* SpecExtract: the extractor run and what it returned
    opt_finalized_df,   \* SpecOptimal: start_time_unix of the rows of the table read
    opt_conv_df,        \* SpecOptimal: the conversations read
    opt_runs,           \* SpecOptimal: of each run its loop position, matches and set
    enh_data,           \* SpecEnhance: the table enhance_user_identification reads
    enhanced_data,      \* SpecEnhance: the table it returns, <<>> before
    cons_df,            \* SpecConsolidate: the already-matched table read by each run
    cons_runs,          \* SpecConsolidate: the tables the consolidation runs wrote
    sequence_counter,   \* SpecConsolidate: the counter as the last run left it
    clean_runs,         \* SpecConsolidate: the identifier columns clean_dataset derived
    payloads,           \* SpecRecover: the conversation records of the old export
    script,             \* SpecRecover: which of the two extraction scripts runs
    rec_pc,             \* SpecRecover: load, filter, extract, done or failed
    rec_cursor,         \* SpecRecover: the record the loop is at
    loaded,             \* SpecRecover: all_conversations of extract_from_json
    all_messages        \* SpecRecover: the messages extracted so far

\* The variables of Spec (merge_datasets.py).
alignVars == <<survey_data, conv_data, result_data, pc, cursor, order,
               unmatched_conv_ids, cleaned_data, final_data, df_unified>>

\* The variables of SpecConfidence (the three confidence formulas).
confVars == <<scored>>

\* The variables of SpecRematch (aggressive_rematching.py, match_missing_ids.py).
rematchVars == <<finalized_df, conv_df, rm_pc, tier, rm_cursor,
                 current_unmatched, current_available, all_new_matches>>

\* The variables of SpecPromptdata (process_promptdata_and_export.py).
promptVars == <<unified_df, all_conversations, pd_pc, pd_cursor, matches,
                matched_conv_ids, matched_response_ids, updated_df>>

\* The variables of SpecMetrics (the two metrics aggregators).
metricsVars == <<conv_messages, row_metrics, stats>>

\* The variables of SpecFix (fix_cross_date_mismatches.py).
fixVars == <<fix_finalized_df, fix_conv_df, fix_pc, cross_date_matches,
             fix_cursor, fixes, finalized_updated>>

\* The variables of SpecExtract (the strict identifier extractor).
extractVars == <<message, stated>>

\* The variables of SpecOptimal (rematch_with_unix_time.py), two runs of it.
optimalVars == <<opt_finalized_df, opt_conv_df, opt_runs>>

\* The variables of SpecEnhance (enhance_dataset.py).
enhanceVars == <<enh_data, enhanced_data>>

\* The variables of SpecConsolidate (create_final_consolidated_dataset.py and the
\* identifier derivation of clean_dataset), each run twice.
consolidateVars == <<cons_df, cons_runs, sequence_counter, clean_runs>>

\* The variables of SpecRecover (extract_using_ast.py and extract_from_json.py).
recoverVars == <<payloads, script, rec_pc, rec_cursor, loaded, all_messages>>

vars == <<alignVars, confVars, rematchVars, promptVars, metricsVars, fixVars,
          extractVars,
          optimalVars,
          enhanceVars,
          consolidateVars,
          recoverVars>>

\* What a step of each specification leaves alone.
notAlignVars == <<confVars, rematchVars, promptVars, metricsVars, fixVars, extractVars,
    optimalVars,
    enhanceVars,
    consolidateVars,
    recoverVars>>

notConfVars == <<alignVars, rematchVars, promptVars, metricsVars, fixVars, extractVars,
    optimalVars,
    enhanceVars,
    consolidateVars,
    recoverVars>>

notRematchVars == <<alignVars, confVars, promptVars, metricsVars, fixVars, extractVars,
    optimalVars,
    enhanceVars,
    consolidateVars,
    recoverVars>>

notPromptVars == <<alignVars, confVars, rematchVars, metricsVars, fixVars, extractVars,
    optimalVars,
    enhanceVars,
    consolidateVars,
    recoverVars>>

notMetricsVars == <<alignVars, confVars, rematchVars, promptVars, fixVars, extractVars,
    optimalVars,
    enhanceVars,
    consolidateVars,
    recoverVars>>

notFixVars == <<alignVars, confVars, rematchVars, promptVars, metricsVars, extractVars,
    optimalVars,
    enhanceVars,
    consolidateVars,
    recoverVars>>

notExtractVars == <<alignVars, confVars, rematchVars, promptVars, metricsVars, fixVars,
    optimalVars,
    enhanceVars,
    consolidateVars,
    recoverVars>>

notOptimalVars == <<alignVars, confVars, rematchVars, promptVars,
    metricsVars, fixVars, extractVars,
    enhanceVars,
    consolidateVars,
    recoverVars>>

notEnhanceVars == <<alignVars, confVars, rematchVars, promptVars,
    metricsVars, fixVars, extractVars, optimalVars,
    consolidateVars,
    recoverVars>>

notConsolidateVars == <<alignVars, confVars, rematchVars, promptVars,
    metricsVars, fixVars, extractVars, optimalVars, enhanceVars,
    recoverVars>>

notRecoverVars == <<alignVars, confVars, rematchVars, promptVars,
    metricsVars, fixVars, extractVars, optimalVars, enhanceVars, consolidateVars>>

\* ----------------------------------------------------------------- helpers
Abs(x) == IF x < 0 THEN -x ELSE x

Min(a, b) == IF a <= b THEN a ELSE b

Max(a, b) == IF a >= b THEN a ELSE b

IsNaN(x) == x = NaN

\* Python's `a in b` on strings.
IsSubstr(a, b) ==
    \E k \in 0..(Len(b) - Len(a)) : SubSeq(b, k + 1, k + Len(a)) = a

\* datetime.fromtimestamp(x).strftime('%Y-%m-%d')
DateOf(t) == t \div (24 * 60 * 60)

\* abs(survey_start - conv_time); NaN when one side is NaN.
TimeDiff(a, b) == IF IsNaN(a) \/ IsNaN(b) THEN NaN ELSE Abs(a - b)

\* n / d rounded to the nearest integer, halves to the even one (round()).
RoundDiv(n, d) ==
    LET q == n \div d
        r == n % d
    IN  IF 2 * r < d THEN q
        ELSE IF 2 * r > d THEN q + 1
        ELSE IF q % 2 = 0 THEN q ELSE q + 1

\* extract_user_id_from_message on the first user message; <<>> is None.
ExtractUserId(msg) ==
    IF msg = "My ID is 1" THEN <<1>>
    ELSE IF msg = "My ID is 12" THEN <<1, 2>>
    ELSE <<>>

NoUserID == [kind |-> "None", id |-> <<>>]

EmptyRow ==
    [conversation_id |-> NoConv, create_time |-> NaN,
     UserID |-> NoUserID, MatchMethod |-> "None"]

SurveyIdx == 1..Len(survey_data)

ConvIdx == 1..Len(conv_data)

\* ---------------------------------------------------- match_by_explicit_id
\* `stated_id in row['ResponseId'] or row['ResponseId'] in stated_id`
IdMatchesRow(stated_id, rid) ==
    rid # <<>> /\ stated_id # <<>>
    /\ (IsSubstr(stated_id, rid) \/ IsSubstr(rid, stated_id))

\* The row the inner loop stops at (break), or 0.
FirstMatchingRow(stated_id) ==
    LET hits == {i \in SurveyIdx : IdMatchesRow(stated_id, survey_data[i].ResponseId)}
    IN  IF hits = {} THEN 0 ELSE CHOOSE i \in hits : \A j \in hits : i <= j

ExplicitRow(c, stated_id) ==
    [conversation_id |-> c, create_time |-> conv_data[c].create_time,
     UserID |-> [kind |-> "Stated", id |-> stated_id],
     MatchMethod |-> "ExplicitID"]

\* One iteration of `for conv_id in unique_conversation_ids`.
ExplicitStep ==
    /\ pc = "explicit"
    /\ cursor <= Len(conv_data)
    /\ LET c == cursor
           stated_id == ExtractUserId(conv_data[c].msg)
           idx == FirstMatchingRow(stated_id)
       IN  result_data' =
               IF stated_id = <<>> \/ idx = 0 THEN result_data
               ELSE [result_data EXCEPT ![idx] = ExplicitRow(c, stated_id)]
    /\ cursor' = cursor + 1
    /\ UNCHANGED <<survey_data, conv_data, pc, order, unmatched_conv_ids, cleaned_data,
                   final_data, df_unified>>
    /\ UNCHANGED notAlignVars

\* ------------------------------------------------------ match_by_timestamp
\* Rows in ascending start_time_unix, NaN last, equal times in row order.
RECURSIVE SortByStart(_)
SortByStart(S) ==
    IF S = {} THEN <<>>
    ELSE LET key(i) == IF IsNaN(survey_data[i].start) THEN 2147483647
                       ELSE survey_data[i].start
             m == CHOOSE i \in S : \A j \in S :
                      key(i) < key(j) \/ (key(i) = key(j) /\ i <= j)
         IN  <<m>> \o SortByStart(S \ {m})

RECURSIVE SeqOfSet(_)
SeqOfSet(S) ==
    IF S = {} THEN <<>>
    ELSE LET m == CHOOSE i \in S : \A j \in S : i <= j
         IN  <<m>> \o SeqOfSet(S \ {m})

\* Mutant of UnmatchedRows: the isna() filter is forgotten.
UnmatchedRows_AllRows(res) == DOMAIN res

\* result_data[result_data['conversation_id'].isna()]
UnmatchedRows(res) == {i \in DOMAIN res : res[i].conversation_id = NoConv}

\* [conv_id for conv_id in unique_conversation_ids if conv_id not in matched_conv_ids]
FreeConvIds(res) ==
    SelectSeq(SeqOfSet(ConvIdx),
              LAMBDA c : \A i \in DOMAIN res : res[i].conversation_id # c)

\* The rows of survey_sessions, date by date: the unmatched rows with a start
\* time, in sorted order.
SessionRows(res) ==
    SelectSeq(SortByStart(UnmatchedRows(res)),
              LAMBDA i : ~IsNaN(survey_data[i].start))

\* Mutant of WithinTolerance: twice the tolerance is allowed.
WithinTolerance_Twice(d) == ~IsNaN(d) /\ d <= 2 * TIMESTAMP_TOLERANCE

\* Mutant of WithinTolerance: the tolerance test is forgotten.
WithinTolerance_Any(d) == ~IsNaN(d)

\* `time_diff <= TIMESTAMP_TOLERANCE`
WithinTolerance(d) == ~IsNaN(d) /\ d <= TIMESTAMP_TOLERANCE

\* Mutant of BestMatch: the first conversation within the tolerance is taken,
\* whatever its distance.
BestMatch_First(start, pool) ==
    LET cand == SelectSeq(pool, LAMBDA c :
                    WithinTolerance(TimeDiff(start, conv_data[c].create_time)))
    IN  IF cand = <<>> THEN NoConv ELSE cand[1]

\* The closest conversation of `pool` within the tolerance, the first one of
\* the pool among equally close ones; NoConv when there is none.
BestMatch(start, pool) ==
    LET diff(c) == TimeDiff(start, conv_data[c].create_time)
        cand == SelectSeq(pool, LAMBDA c : WithinTolerance(diff(c)))
    IN  IF cand = <<>> THEN NoConv
        ELSE LET k == CHOOSE k \in 1..Len(cand) :
                          /\ \A j \in 1..Len(cand) : diff(cand[k]) <= diff(cand[j])
                          /\ \A j \in 1..(k - 1) : diff(cand[j]) > diff(cand[k])
             IN  cand[k]

\* Mutant of SameDatePool: every free conversation is offered.
SameDatePool_AnyDate(start, free) == free

\* conv_times of the survey's date: the free conversations created that day.
SameDatePool(start, free) ==
    SelectSeq(free, LAMBDA c : DateOf(conv_data[c].create_time) = DateOf(start))

\* Mutant of RemoveConv: the matched conversation stays in the pool.
RemoveConv_Keep(pool, c) == pool

\* unmatched_conv_ids.remove(best_match_id); del conv_times[best_match_id]
RemoveConv(pool, c) == SelectSeq(pool, LAMBDA x : x # c)

\* UserID of a timestamp match: the stated id, or one derived from the
\* survey's start time to the minute.
TimestampUserID(c, start) ==
    LET stated_id == ExtractUserId(conv_data[c].msg)
    IN  IF stated_id # <<>> THEN [kind |-> "Stated", id |-> stated_id]
        ELSE [kind |-> "Derived", id |-> <<start \div 60>>]

TimestampRow(c, start) ==
    [conversation_id |-> c, create_time |-> conv_data[c].create_time,
     UserID |-> TimestampUserID(c, start), MatchMethod |-> "Timestamp"]

\* conv_data_with_times['create_time'].astype(float) raises on a create_time
\* that is not a number, datetime.fromtimestamp(x) on one that is NaN.
RaisesValueError(create_time) == create_time = NonNumeric \/ IsNaN(create_time)

\* The prologue of match_by_timestamp raises: the exception leaves
\* align_datasets and main, and no table is written.
TimestampAbort ==
    /\ pc = "explicit"
    /\ cursor > Len(conv_data)
    /\ \E c \in ConvIdx : RaisesValueError(conv_data[c].create_time)
    /\ pc' = "aborted"
    /\ UNCHANGED <<survey_data, conv_data, result_data, cursor, order,
                   unmatched_conv_ids, cleaned_data, final_data, df_unified>>
    /\ UNCHANGED notAlignVars

\* The prologue of match_by_timestamp.
TimestampBegin ==
    /\ pc = "explicit"
    /\ cursor > Len(conv_data)
    /\ \A c \in ConvIdx : ~RaisesValueError(conv_data[c].create_time)
    /\ pc' = "same_date"
    /\ order' = SessionRows(result_data)
    /\ unmatched_conv_ids' = FreeConvIds(result_data)
    /\ cursor' = 1
    /\ UNCHANGED <<survey_data, conv_data, result_data, cleaned_data,
                   final_data, df_unified>>
    /\ UNCHANGED notAlignVars

\* What one visit of a survey row does with the pool it is offered.
AcceptBest(idx, pool) ==
    LET start == survey_data[idx].start
        best == BestMatch(start, pool)
    IN  IF best = NoConv
        THEN UNCHANGED <<result_data, unmatched_conv_ids>>
        ELSE /\ result_data' = [result_data EXCEPT ![idx] = TimestampRow(best, start)]
             /\ unmatched_conv_ids' = RemoveConv(unmatched_conv_ids, best)

\* One iteration of `for idx in survey_indices` of the same-date pass.
SameDateStep ==
    /\ pc = "same_date"
    /\ cursor <= Len(order)
    /\ AcceptBest(order[cursor],
                  SameDatePool(survey_data[order[cursor]].start, unmatched_conv_ids))
    /\ cursor' = cursor + 1
    /\ UNCHANGED <<survey_data, conv_data, pc, order, cleaned_data,
                   final_data, df_unified>>
    /\ UNCHANGED notAlignVars

\* `still_unmatched = ...; if not still_unmatched.empty and unmatched_conv_ids`
SecondPassBegin ==
    /\ pc = "same_date"
    /\ cursor > Len(order)
    /\ pc' = "second_pass"
    /\ order' = IF UnmatchedRows(result_data) # {} /\ unmatched_conv_ids # <<>>
                THEN SeqOfSet(UnmatchedRows(result_data))
                ELSE <<>>
    /\ cursor' = 1
    /\ UNCHANGED <<survey_data, conv_data, result_data, unmatched_conv_ids, cleaned_data,
                   final_data, df_unified>>
    /\ UNCHANGED notAlignVars

\* One iteration of `for idx, survey_row in still_unmatched.iterrows()`.
SecondPassStep ==
    /\ pc = "second_pass"
    /\ cursor <= Len(order)
    /\ AcceptBest(order[cursor], unmatched_conv_ids)
    /\ cursor' = cursor + 1
    /\ UNCHANGED <<survey_data, conv_data, pc, order, cleaned_data,
                   final_data, df_unified>>
    /\ UNCHANGED notAlignVars

\* ----------------------------------------------------------- clean_dataset
\* Mutant of CleanConfidence: a one-hour reference scale, clamped at 0.
CleanConfidence_Hour(d) ==
    IF IsNaN(d) THEN 0 ELSE Max(0, 10000 - RoundDiv(10000 * d, 3600))

\* 100 - min(99, timestamp_diff / (TIMESTAMP_TOLERANCE / 10)), then
\* round(max(0, x), 2); 0 for a row with no timestamp_diff.  In hundredths.
CleanConfidence(d) ==
    IF IsNaN(d) THEN 0
    ELSE LET scale == TIMESTAMP_TOLERANCE \div 10
         IN  Max(0, RoundDiv(10000 * scale - Min(9900 * scale, 100 * d), scale))

\* f"AutoID_{shortened_id}": the last 8 characters of the ResponseId.
AutoUserID(rid) ==
    [kind |-> "AutoID",
     id |-> IF Len(rid) > 8 THEN SubSeq(rid, Len(rid) - 7, Len(rid)) ELSE rid]

CleanRow(i) ==
    LET row == result_data[i]
        diff == IF IsNaN(row.create_time) THEN NaN
                ELSE TimeDiff(survey_data[i].start, row.create_time)
        uid == IF row.UserID.kind = "None" THEN AutoUserID(survey_data[i].ResponseId)
               ELSE row.UserID
    IN  [HasMatch |-> row.conversation_id # NoConv,
         timestamp_diff |-> diff,
         match_confidence |-> CleanConfidence(diff),
         UserID |-> uid,
         UserID_Source |->
             IF uid.kind = "AutoID" THEN "Auto-generated"
             ELSE IF row.MatchMethod = "Timestamp" THEN "Timestamp"
             ELSE IF row.MatchMethod = "ExplicitID" THEN "Explicit"
             ELSE "Missing"]

CleanDataset ==
    /\ pc = "second_pass"
    /\ cursor > Len(order)
    /\ pc' = "done"
    /\ cleaned_data' = [i \in SurveyIdx |-> CleanRow(i)]
    /\ UNCHANGED <<survey_data, conv_data, result_data, cursor, order,
                   unmatched_conv_ids, final_data, df_unified>>
    /\ UNCHANGED notAlignVars

\* -------------------------------------------------- generate_final_dataset
\* re.sub(r'[^a-zA-Z0-9]', '', str(UserID)): the letters and digits of the
\* UserID, that is its literal part (the kind) and the characters of its id.
ParticipantId(uid) == <<uid.kind, uid.id>>

\* Mutant of IsDuplicate: every row of a shared participant_id is marked.
IsDuplicate_All(i) ==
    Cardinality({j \in SurveyIdx :
                    ParticipantId(cleaned_data[j].UserID)
                        = ParticipantId(cleaned_data[i].UserID)}) > 1

\* sorted_rows.index[1:] of the rows sharing the participant_id of row i: row
\* i is marked when it is not the first of them in start_time_unix order.
IsDuplicate(i) ==
    LET same == {j \in SurveyIdx :
                    ParticipantId(cleaned_data[j].UserID)
                        = ParticipantId(cleaned_data[i].UserID)}
    IN  Cardinality(same) > 1 /\ SortByStart(same)[1] # i

\* Mutant of FinalRow: a row without a conversation is labelled 'Unmatched'.
FinalRow_Labelled(i) ==
    [ResponseId |-> survey_data[i].ResponseId,
     conversation_id |-> result_data[i].conversation_id,
     MatchMethod |-> IF result_data[i].conversation_id = NoConv THEN "Unmatched"
                     ELSE result_data[i].MatchMethod,
     HasMatch |-> cleaned_data[i].HasMatch,
     match_confidence |-> cleaned_data[i].match_confidence,
     participant_id |-> ParticipantId(cleaned_data[i].UserID),
     is_duplicate |-> IsDuplicate(i),
     data_status |-> IF IsDuplicate(i) THEN "Duplicate"
                     ELSE IF ~cleaned_data[i].HasMatch THEN "Missing conversation"
                     ELSE "Complete",
     final_id |-> i]

\* A row of final_data: the columns of the cleaned row, is_duplicate,
\* data_status and final_id.
FinalRow(i) ==
    [ResponseId |-> survey_data[i].ResponseId,
     conversation_id |-> result_data[i].conversation_id,
     MatchMethod |-> result_data[i].MatchMethod,
     HasMatch |-> cleaned_data[i].HasMatch,
     match_confidence |-> cleaned_data[i].match_confidence,
     participant_id |-> ParticipantId(cleaned_data[i].UserID),
     is_duplicate |-> IsDuplicate(i),
     data_status |-> IF IsDuplicate(i) THEN "Duplicate"
                     ELSE IF ~cleaned_data[i].HasMatch THEN "Missing conversation"
                     ELSE "Complete",
     final_id |-> i]

GenerateFinalDataset ==
    /\ pc = "done"
    /\ pc' = "final"
    /\ final_data' = [i \in SurveyIdx |-> FinalRow(i)]
    /\ UNCHANGED <<survey_data, conv_data, result_data, cursor, order,
                   unmatched_conv_ids, cleaned_data, df_unified>>
    /\ UNCHANGED notAlignVars

\* ----------------------------------------- create_unified_complete_dataset
\* df.drop_duplicates(subset=['ResponseId'], keep='first')
DropDuplicates(df) ==
    LET keep == SelectSeq(SeqOfSet(DOMAIN df),
                    LAMBDA j : \A k \in 1..(j - 1) : df[k].ResponseId # df[j].ResponseId)
    IN  [n \in 1..Len(keep) |-> df[keep[n]]]

\* The columns of df_info on a row of the survey that has no partner.
NullInfo(rid) ==
    [ResponseId |-> rid, conversation_id |-> NoConv, MatchMethod |-> "None",
     HasMatch |-> "None", match_confidence |-> NaN, participant_id |-> "None",
     is_duplicate |-> "None", data_status |-> "None", final_id |-> NaN]

\* The rows a left row gives in left.merge(right, on='ResponseId',
\* how='left'): one per right row with its key, or one of nulls.
MergedRows(rid, right) ==
    LET hits == SelectSeq(right, LAMBDA r : r.ResponseId = rid)
    IN  IF hits = <<>> THEN <<NullInfo(rid)>> ELSE hits

\* Mutant of LeftMerge: an inner merge on the rows that have a match.
RECURSIVE LeftMerge_MatchedOnly(_, _)
LeftMerge_MatchedOnly(left, right) ==
    IF left = <<>> THEN <<>>
    ELSE SelectSeq(MergedRows(Head(left).ResponseId, right),
                   LAMBDA r : r.HasMatch = TRUE)
             \o LeftMerge_MatchedOnly(Tail(left), right)

\* df_survey_raw.merge(df_info, on='ResponseId', how='left'), in the order of
\* the left rows.
RECURSIVE LeftMerge(_, _)
LeftMerge(left, right) ==
    IF left = <<>> THEN <<>>
    ELSE MergedRows(Head(left).ResponseId, right) \o LeftMerge(Tail(left), right)

\* main of create_unified_complete_dataset: iverdata.csv merged with the
\* finalized dataset.
CreateUnified ==
    /\ pc = "final"
    /\ pc' = "unified"
    /\ df_unified' = LeftMerge(survey_data, DropDuplicates(final_data))
    /\ UNCHANGED <<survey_data, conv_data, result_data, cursor, order,
                   unmatched_conv_ids, cleaned_data, final_data>>
    /\ UNCHANGED notAlignVars

\* ------------------------------------------------------- confidence scores
\* A confidence is kept as a whole number of 1/unit percent: clean_dataset
\* rounds to hundredths (unit 100); 100 - d / 3600 is (360000 - d) / 3600
\* (unit 3600); 100 - (d / 60) / 10 is (60000 - d) / 600 (unit 600).
MAX_TIME_DIFF == 604800

EXTENDED_TOLERANCE == 172800

\* Time differences in seconds, from none to 30 days.
TimeDeltas ==
    {0, 1, 900, 3600, 8640, 60000, 86400, 172800, 360000, 604800, 855360, 2592000}

NotScored == [fn |-> "none", d1 |-> 0, d2 |-> 0, c1 |-> 0, c2 |-> 0, unit |-> 1]

\* create_optimal_matching: max(0, 100 - (best_time_diff / 3600))
OptimalConfidence(d) == Max(0, 360000 - d)

\* Mutant of ExtendedConfidence: the floor max(0, .) is forgotten.
ExtendedConfidence_NoFloor(d) == 60000 - d

\* match_by_extended_timestamp: max(0, 100 - (time_diff_minutes / 10))
ExtendedConfidence(d) == Max(0, 60000 - d)

\* clean_dataset scores every row: a match at any distance, or no match (NaN).
ScoreCleanDataset ==
    /\ \E d1, d2 \in TimeDeltas \cup {NaN} :
          scored' = [fn |-> "clean_dataset", d1 |-> d1, d2 |-> d2,
                     c1 |-> CleanConfidence(d1), c2 |-> CleanConfidence(d2),
                     unit |-> 100]
    /\ UNCHANGED notConfVars

\* create_optimal_matching scores the pairs it accepts: time_diff <= MAX_TIME_DIFF.
ScoreOptimalMatching ==
    /\ \E d1, d2 \in {d \in TimeDeltas : d <= MAX_TIME_DIFF} :
          scored' = [fn |-> "create_optimal_matching", d1 |-> d1, d2 |-> d2,
                     c1 |-> OptimalConfidence(d1), c2 |-> OptimalConfidence(d2),
                     unit |-> 3600]
    /\ UNCHANGED notConfVars

\* match_by_extended_timestamp scores the pairs it accepts:
\* time_diff <= EXTENDED_TOLERANCE.
ScoreExtendedTimestamp ==
    /\ \E d1, d2 \in {d \in TimeDeltas : d <= EXTENDED_TOLERANCE} :
          scored' = [fn |-> "match_by_extended_timestamp", d1 |-> d1, d2 |-> d2,
                     c1 |-> ExtendedConfidence(d1), c2 |-> ExtendedConfidence(d2),
                     unit |-> 600]
    /\ UNCHANGED notConfVars

\* ------------------------------------------- re-matching over conversations
\* aggressive_rematching.main and match_missing_ids.match_by_extended_timestamp
\* visit the unused conversations one by one and give each the closest
\* unmatched survey within a tolerance.  A row of the finalized table is
\* ResponseId, conversation_id, start_time_unix; the ResponseId of row i is
\* <<i>>, and a matched row i holds conversation i.  match_missing_ids takes
\* the matched conversations from nhh_esperanto_conversations.csv, here the
\* conversations the finalized table holds; it walks a Python set, so in an
\* order of its own: every order is an order of some conversation table here.
RematchConvTimes == {1701000900, 1701864000, 1702728000, 1704456000}

RematchMessages == {"login", "hello"}

\* tolerances of aggressive_rematching: 7, 14 and 30 days.
AggressiveTolerances ==
    <<7 * 24 * 60 * 60, 14 * 24 * 60 * 60, 30 * 24 * 60 * 60>>

\* finalized_df[finalized_df['conversation_id'].isna()], as row numbers.
RematchUnmatched ==
    SelectSeq(SeqOfSet(DOMAIN finalized_df),
              LAMBDA i : finalized_df[i].conversation_id = NoConv)

\* The conversations not used by the finalized table whose first user message
\* is not "login".
AvailableConvs ==
    SelectSeq(SeqOfSet(DOMAIN conv_df),
              LAMBDA c : /\ conv_df[c].msg # "login"
                         /\ \A i \in DOMAIN finalized_df :
                               finalized_df[i].conversation_id # c)

\* valid_matches.nsmallest(1, 'time_diff').iloc[0]: the closest row of `rows`
\* of `table` within `tolerance` of conv_time, the first of the closest ones;
\* 0 when valid_matches is empty.
ClosestSurvey(table, conv_time, rows, tolerance) ==
    LET diff(i) == TimeDiff(table[i].start, conv_time)
        valid == SelectSeq(rows, LAMBDA i : ~IsNaN(diff(i)) /\ diff(i) <= tolerance)
    IN  IF valid = <<>> THEN 0
        ELSE LET k == CHOOSE k \in 1..Len(valid) :
                          /\ \A j \in 1..Len(valid) : diff(valid[k]) <= diff(valid[j])
                          /\ \A j \in 1..(k - 1) : diff(valid[j]) > diff(valid[k])
             IN  valid[k]

NewMatch(c, i, label) ==
    [conversation_id |-> c, ResponseId |-> finalized_df[i].ResponseId,
     time_diff |-> TimeDiff(finalized_df[i].start, conv_df[c].create_time),
     tolerance_used |-> label]

\* Mutant of MatchedResponses: earlier matches are not left out.
MatchedResponses_None == {}

\* [m['ResponseId'] for m in all_new_matches]
MatchedResponses == {all_new_matches[k].ResponseId : k \in DOMAIN all_new_matches}

MatchedConversations == {all_new_matches[k].conversation_id : k \in DOMAIN all_new_matches}

\* The head of `for tolerance, label in tolerances`: current_unmatched and
\* current_available leave out what earlier tiers matched.
TierBegin ==
    /\ rm_pc = "tier_begin"
    /\ current_unmatched' =
           SelectSeq(RematchUnmatched,
                     LAMBDA i : finalized_df[i].ResponseId \notin MatchedResponses)
    /\ current_available' =
           SelectSeq(AvailableConvs, LAMBDA c : c \notin MatchedConversations)
    /\ rm_cursor' = 1
    /\ rm_pc' = "tier_loop"
    /\ UNCHANGED <<finalized_df, conv_df, tier, all_new_matches>>
    /\ UNCHANGED notRematchVars

\* One iteration of `for conv in current_available`.
TierConvStep ==
    /\ rm_pc = "tier_loop"
    /\ rm_cursor <= Len(current_available)
    /\ LET c == current_available[rm_cursor]
           best == ClosestSurvey(finalized_df, conv_df[c].create_time, current_unmatched,
                                 AggressiveTolerances[tier])
       IN  all_new_matches' =
               IF best = 0 THEN all_new_matches
               ELSE Append(all_new_matches, NewMatch(c, best, tier))
    /\ rm_cursor' = rm_cursor + 1
    /\ UNCHANGED <<finalized_df, conv_df, rm_pc, tier, current_unmatched, current_available>>
    /\ UNCHANGED notRematchVars

\* The end of a tier: the next tolerance, or the end of the list.
TierEnd ==
    /\ rm_pc = "tier_loop"
    /\ rm_cursor > Len(current_available)
    /\ tier' = tier + 1
    /\ rm_pc' = IF tier < Len(AggressiveTolerances) THEN "tier_begin" ELSE "done"
    /\ UNCHANGED <<finalized_df, conv_df, rm_cursor, current_unmatched,
                   current_available, all_new_matches>>
    /\ UNCHANGED notRematchVars

\* The head of match_by_extended_timestamp: it returns at once when there is
\* no unmatched survey or no unmatched conversation.
ExtendedBegin ==
    /\ rm_pc = "extended_begin"
    /\ current_unmatched' = RematchUnmatched
    /\ current_available' = AvailableConvs
    /\ rm_cursor' = 1
    /\ rm_pc' = IF RematchUnmatched = <<>> \/ AvailableConvs = <<>>
                THEN "done" ELSE "extended_loop"
    /\ UNCHANGED <<finalized_df, conv_df, tier, all_new_matches>>
    /\ UNCHANGED notRematchVars

\* One iteration of `for idx, conv_row in unmatched_convs_df.iterrows()`.
ExtendedStep ==
    /\ rm_pc = "extended_loop"
    /\ rm_cursor <= Len(current_available)
    /\ LET c == current_available[rm_cursor]
           best == ClosestSurvey(finalized_df, conv_df[c].create_time, current_unmatched,
                                 EXTENDED_TOLERANCE)
       IN  all_new_matches' =
               IF best = 0 THEN all_new_matches
               ELSE Append(all_new_matches, NewMatch(c, best, 0))
    /\ rm_cursor' = rm_cursor + 1
    /\ UNCHANGED <<finalized_df, conv_df, rm_pc, tier, current_unmatched, current_available>>
    /\ UNCHANGED notRematchVars

ExtendedEnd ==
    /\ rm_pc = "extended_loop"
    /\ rm_cursor > Len(current_available)
    /\ rm_pc' = "done"
    /\ UNCHANGED <<finalized_df, conv_df, tier, rm_cursor, current_unmatched,
                   current_available, all_new_matches>>
    /\ UNCHANGED notRematchVars

\* Finalized tables: row i is unmatched or holds conversation i.
FinalizedTables ==
    {t \in [1..MaxSurveys -> [ResponseId : {<<i>> : i \in 1..MaxSurveys},
                              conversation_id : 0..MaxConvs,
                              start : SurveyTimes]] :
        \A i \in 1..MaxSurveys :
            /\ t[i].ResponseId = <<i>>
            /\ t[i].conversation_id \in {NoConv, i}}

RematchConvTables ==
    [1..MaxConvs -> [create_time : RematchConvTimes, msg : RematchMessages]]

\* ------------------------------------------------- promptdata matching pass
\* process_promptdata_and_export.main gives each conversation of the CSN
\* folders the closest still-unmatched row of the unified table within 24
\* hours, then writes the matches into a copy of the table.  A conversation
\* is conversation_id, create_time and whether it has a user message.
PromptTimes == {1701000900, 1701864000}

PROMPT_TOLERANCE == 24 * 60 * 60

\* unified_df[unified_df['conversation_id'].isna()], as row numbers.
unmatched_df ==
    SelectSeq(SeqOfSet(DOMAIN unified_df),
              LAMBDA i : unified_df[i].conversation_id = NoConv)

\* unmatched_df[~unmatched_df['ResponseId'].isin(matched_response_ids)].
available_unmatched ==
    SelectSeq(unmatched_df,
              LAMBDA i : unified_df[i].ResponseId \notin matched_response_ids)

\* One iteration of `for conv in all_conversations`: the three `continue`s,
\* the `break` on an empty pool (the loop position moves past the end), or
\* the search for the closest row.
PromptConvStep ==
    /\ pd_pc = "match"
    /\ pd_cursor <= Len(all_conversations)
    /\ LET conv == all_conversations[pd_cursor]
           best == ClosestSurvey(unified_df, conv.create_time,
                                 available_unmatched, PROMPT_TOLERANCE)
       IN  IF conv.conversation_id \in matched_conv_ids \/ ~conv.has_user
           THEN /\ pd_cursor' = pd_cursor + 1
                /\ UNCHANGED <<matches, matched_conv_ids, matched_response_ids>>
           ELSE IF available_unmatched = <<>>
           THEN /\ pd_cursor' = Len(all_conversations) + 1
                /\ UNCHANGED <<matches, matched_conv_ids, matched_response_ids>>
           ELSE IF best = 0
           THEN /\ pd_cursor' = pd_cursor + 1
                /\ UNCHANGED <<matches, matched_conv_ids, matched_response_ids>>
           ELSE /\ pd_cursor' = pd_cursor + 1
                /\ matches' = Append(matches,
                       [conversation_id |-> conv.conversation_id,
                        ResponseId |-> unified_df[best].ResponseId,
                        create_time |-> conv.create_time])
                /\ matched_conv_ids' = matched_conv_ids \cup {conv.conversation_id}
                /\ matched_response_ids' =
                       matched_response_ids \cup {unified_df[best].ResponseId}
    /\ UNCHANGED <<unified_df, all_conversations, pd_pc, updated_df>>
    /\ UNCHANGED notPromptVars

\* A row of updated_df after `for match in matches`: the last match naming
\* its ResponseId is written over it.
UpdatedRow(i) ==
    LET hits == SelectSeq(matches,
                    LAMBDA m : m.ResponseId = unified_df[i].ResponseId)
    IN  IF hits = <<>> THEN unified_df[i]
        ELSE [unified_df[i] EXCEPT !.conversation_id = hits[Len(hits)].conversation_id]

\* After the loop: updated_df = unified_df.copy() with the matches written.
UpdateUnified ==
    /\ pd_pc = "match"
    /\ pd_cursor > Len(all_conversations)
    /\ updated_df' = [i \in DOMAIN unified_df |-> UpdatedRow(i)]
    /\ pd_pc' = "done"
    /\ UNCHANGED <<unified_df, all_conversations, pd_cursor, matches,
                   matched_conv_ids, matched_response_ids>>
    /\ UNCHANGED notPromptVars

\* Unified tables: no conversation is on two rows before the pass.
UnifiedTables ==
    {t \in [1..MaxSurveys -> [ResponseId : {<<i>> : i \in 1..MaxSurveys},
                              conversation_id : 0..MaxConvs,
                              start : SurveyTimes]] :
        /\ \A i \in 1..MaxSurveys : t[i].ResponseId = <<i>>
        /\ \A i, j \in 1..MaxSurveys :
              i # j /\ t[i].conversation_id # NoConv
                  => t[i].conversation_id # t[j].conversation_id}

PromptConversations ==
    [1..MaxConvs -> [conversation_id : 1..MaxConvs, create_time : PromptTimes,
                     has_user : BOOLEAN]]

\* ------------------------------------------------------ metrics aggregators
\* extract_conversation_metrics (merge_datasets.py) and
\* calculate_conversation_stats (process_promptdata_and_export.py) on the
\* messages of one conversation.  A message is its author_role, its
\* message_content and its create_time; a content is its length and whether
\* it is wrapped as "['...']", and the content of an empty CSV cell is NaN
\* (length NaN).  An average is the pair <<sum, count>> in lowest terms, so
\* that 0 is <<0, 1>>; <<0, 0>> stands for a division by zero.
Roles == {"user", "assistant", "system"}

Contents ==
    {[len |-> 2, wrapped |-> FALSE], [len |-> 9, wrapped |-> TRUE],
     [len |-> NaN, wrapped |-> FALSE]}

MessageTimes == {1701000900, 1701001500}

MessageLists ==
    UNION {[1..n -> [author_role : Roles, message_content : Contents,
                     create_time : MessageTimes]] : n \in 0..MaxMsgs}

RECURSIVE Sum(_)
Sum(q) == IF q = <<>> THEN 0 ELSE Head(q) + Sum(Tail(q))

RECURSIVE GCD(_, _)
GCD(a, b) == IF b = 0 THEN a ELSE GCD(b, a % b)

ZeroAverage == <<0, 1>>

DivisionByZero == <<0, 0>>

\* sum(lengths) / len(lengths), np.mean(lengths)
Mean(lengths) ==
    IF lengths = <<>> THEN DivisionByZero
    ELSE LET g == GCD(Sum(lengths), Len(lengths))
         IN  <<Sum(lengths) \div g, Len(lengths) \div g>>

OfRole(messages, role) == SelectSeq(messages, LAMBDA m : m.author_role = role)

\* max(times) - min(times) when there is more than one time, else 0.
Duration(messages) ==
    IF Len(messages) > 1
    THEN LET t(k) == messages[k].create_time
             hi == CHOOSE k \in DOMAIN messages : \A j \in DOMAIN messages : t(k) >= t(j)
             lo == CHOOSE k \in DOMAIN messages : \A j \in DOMAIN messages : t(k) <= t(j)
         IN  t(hi) - t(lo)
    ELSE 0

\* The metric columns as extract_conversation_metrics initialises them.
ZeroMetrics ==
    [MessageCount |-> 0, UserMessageCount |-> 0, AIMessageCount |-> 0,
     AverageUserMessageLength |-> ZeroAverage,
     AverageAIMessageLength |-> ZeroAverage, ConversationDuration |-> 0]

NoMetrics == [ZeroMetrics EXCEPT !.MessageCount = NaN]

\* len(msg) after `msg[2:-2] if msg.startswith("['") and msg.endswith("']")`
CleanedLength(content) ==
    IF content.wrapped THEN content.len - 4 ELSE content.len

CleanedLengths(msgs) ==
    [k \in DOMAIN msgs |-> CleanedLength(msgs[k].message_content)]

\* The metrics extract_conversation_metrics leaves on a row linked to the
\* conversation: the initial zeros when the conversation has no message, and
\* when msg.startswith raises on a NaN content of a user or assistant message
\* (the except clause logs, and the assignments are never reached).
ExtractMetrics(messages) ==
    LET user_msgs == OfRole(messages, "user")
        ai_msgs == OfRole(messages, "assistant")
        raises == \E k \in DOMAIN messages :
                      /\ messages[k].author_role \in {"user", "assistant"}
                      /\ IsNaN(messages[k].message_content.len)
    IN  IF messages = <<>> \/ raises THEN ZeroMetrics
        ELSE [MessageCount |-> Len(user_msgs) + Len(ai_msgs),
              UserMessageCount |-> Len(user_msgs),
              AIMessageCount |-> Len(ai_msgs),
              AverageUserMessageLength |->
                  IF user_msgs # <<>> THEN Mean(CleanedLengths(user_msgs))
                  ELSE ZeroAverage,
              AverageAIMessageLength |->
                  IF ai_msgs # <<>> THEN Mean(CleanedLengths(ai_msgs))
                  ELSE ZeroAverage,
              ConversationDuration |-> Duration(messages)]

\* Mutant of LengthsOrZero: `if user_msgs else [0]` is forgotten.
LengthsOrZero_NoGuard(msgs) == [k \in DOMAIN msgs |-> msgs[k].message_content.len]

\* [len(m['message_content']) for m in msgs] if msgs else [0]
LengthsOrZero(msgs) ==
    IF msgs # <<>> THEN [k \in DOMAIN msgs |-> msgs[k].message_content.len]
    ELSE <<0>>

\* calculate_conversation_stats(messages)
CalculateStats(messages) ==
    LET user_msgs == OfRole(messages, "user")
        ai_msgs == OfRole(messages, "assistant")
    IN  [MessageCount |-> Len(messages),
         UserMessageCount |-> Len(user_msgs),
         AIMessageCount |-> Len(ai_msgs),
         AverageUserMessageLength |-> Mean(LengthsOrZero(user_msgs)),
         AverageAIMessageLength |-> Mean(LengthsOrZero(ai_msgs)),
         ConversationDuration |-> Duration(messages)]

\* The body of the loop of extract_conversation_metrics on a linked row.
ExtractConversationMetrics ==
    /\ row_metrics = NoMetrics
    /\ row_metrics' = ExtractMetrics(conv_messages)
    /\ UNCHANGED <<conv_messages, stats>>
    /\ UNCHANGED notMetricsVars

\* calculate_conversation_stats on the messages extract_conversations_from_folder
\* keeps: those with a content (`if message_content and author_role`).
CalculateConversationStats ==
    /\ stats = NoMetrics
    /\ \A k \in DOMAIN conv_messages : ~IsNaN(conv_messages[k].message_content.len)
    /\ stats' = CalculateStats(conv_messages)
    /\ UNCHANGED <<conv_messages, row_metrics>>
    /\ UNCHANGED notMetricsVars

\* ------------------------------------------------ fix_cross_date_mismatches
\* main moves a conversation linked to a survey of another date to the
\* closest unmatched survey of the conversation's date, when that survey is
\* within 12 hours.  A row of the finalized table is ResponseId,
\* conversation_id, start_time_unix, MatchMethod, HasMatch and MessageCount
\* (standing for the six metric columns, which the script treats alike); a
\* conversation is its create_time and the MessageCount computed from it.
FixSurveyTimes == {1701000000, 1701093600}

FixConvTimes == {1701000900, 1701045000, 1701090000}

FixMessageCounts == {2, 5}

\* finalized_df[finalized_df['conversation_id'].notna()] whose survey_date
\* differs from the date of the conversation, in row order.
CrossDateRows ==
    SelectSeq(SeqOfSet(DOMAIN fix_finalized_df),
              LAMBDA i :
                  LET row == fix_finalized_df[i]
                  IN  /\ row.conversation_id # NoConv
                      /\ DateOf(row.start)
                            # DateOf(fix_conv_df[row.conversation_id].create_time))

\* unmatched[unmatched['survey_date'] == conv_date], as row numbers.
SameDateUnmatched(conv_time) ==
    SelectSeq(SeqOfSet(DOMAIN fix_finalized_df),
              LAMBDA i : /\ fix_finalized_df[i].conversation_id = NoConv
                         /\ DateOf(fix_finalized_df[i].start) = DateOf(conv_time))

\* The body of main up to `if not cross_date_matches: return`.
FindCrossDate ==
    /\ fix_pc = "find"
    /\ cross_date_matches' = CrossDateRows
    /\ fix_pc' = IF CrossDateRows = <<>> THEN "done" ELSE "search"
    /\ UNCHANGED <<fix_finalized_df, fix_conv_df, fix_cursor, fixes, finalized_updated>>
    /\ UNCHANGED notFixVars

\* One iteration of `for mismatch in cross_date_matches`.
FixSearchStep ==
    /\ fix_pc = "search"
    /\ fix_cursor <= Len(cross_date_matches)
    /\ LET old == cross_date_matches[fix_cursor]
           c == fix_finalized_df[old].conversation_id
           conv_time == fix_conv_df[c].create_time
           pool == SameDateUnmatched(conv_time)
           \* nsmallest has no tolerance: two times of one date are less
           \* than a day apart
           best == ClosestSurvey(fix_finalized_df, conv_time, pool, 24 * 60 * 60)
       IN  fixes' =
               IF pool # <<>> /\ best # 0
                  /\ TimeDiff(fix_finalized_df[best].start, conv_time) <= 12 * 3600
               THEN Append(fixes, [conversation_id |-> c,
                                   old_ResponseId |-> fix_finalized_df[old].ResponseId,
                                   new_ResponseId |-> fix_finalized_df[best].ResponseId])
               ELSE fixes
    /\ fix_cursor' = fix_cursor + 1
    /\ UNCHANGED <<fix_finalized_df, fix_conv_df, fix_pc, cross_date_matches,
                   finalized_updated>>
    /\ UNCHANGED notFixVars

\* One fix applied to the table: the old survey is unmatched, then the new
\* survey is matched.
ApplyFix(table, f) ==
    LET unmatch == [i \in DOMAIN table |->
                      IF table[i].ResponseId = f.old_ResponseId
                      THEN [table[i] EXCEPT !.conversation_id = NoConv,
                                            !.MatchMethod = "None",
                                            !.HasMatch = FALSE]
                      ELSE table[i]]
    IN  [i \in DOMAIN table |->
            IF unmatch[i].ResponseId = f.new_ResponseId
            THEN [unmatch[i] EXCEPT !.conversation_id = f.conversation_id,
                                    !.MatchMethod = "FixedCrossDate",
                                    !.HasMatch = TRUE]
            ELSE unmatch[i]]

RECURSIVE ApplyFixes(_, _)
ApplyFixes(table, fs) ==
    IF fs = <<>> THEN table ELSE ApplyFixes(ApplyFix(table, Head(fs)), Tail(fs))

\* `if fixes:` the fixes are applied to a copy of the table, which is saved.
ApplyAndSave ==
    /\ fix_pc = "search"
    /\ fix_cursor > Len(cross_date_matches)
    /\ finalized_updated' =
           IF fixes # <<>> THEN ApplyFixes(fix_finalized_df, fixes) ELSE <<>>
    /\ fix_pc' = "done"
    /\ UNCHANGED <<fix_finalized_df, fix_conv_df, cross_date_matches, fix_cursor, fixes>>
    /\ UNCHANGED notFixVars

\* Finalized tables as the pipeline leaves them: no conversation on two rows,
\* and the match columns and metrics of a row agree with its link.
FixFinalizedTables ==
    LET links == {l \in [1..MaxFixRows -> [conversation_id : 0..MaxConvs,
                                           start : FixSurveyTimes]] :
                     \A i, j \in 1..MaxFixRows :
                         i # j /\ l[i].conversation_id # NoConv
                             => l[i].conversation_id # l[j].conversation_id}
        counts == [1..MaxFixRows -> {0} \cup FixMessageCounts]
        table(l, m) ==
            [i \in 1..MaxFixRows |->
                [ResponseId |-> <<i>>,
                 conversation_id |-> l[i].conversation_id,
                 start |-> l[i].start,
                 MatchMethod |-> IF l[i].conversation_id # NoConv THEN "Timestamp"
                                 ELSE "None",
                 HasMatch |-> l[i].conversation_id # NoConv,
                 MessageCount |-> m[i]]]
        agree(l) == {m \in counts :
                        \A i \in 1..MaxFixRows :
                            l[i].conversation_id = NoConv <=> m[i] = 0}
    IN  UNION {{table(l, m) : m \in agree(l)} : l \in links}

FixConvTables ==
    [1..MaxConvs -> [create_time : FixConvTimes, MessageCount : FixMessageCounts]]

\* ------------------------------------------------ strict identifier extractor
\* extract_user_id_from_message of merge_datasets.py, and its copies in
\* process_promptdata_and_export.py and match_recovered_conversations.py: the
\* five patterns are searched in order, and the first one whose leftmost match
\* has components in range gives the identifier.  A text is a string, a
\* character a string of length 1, None the empty string.  A pattern is the
\* sequence of its items: \b, (?![\w]), or a class of characters repeated
\* min..max times (max -1: no limit), greedy or lazy, captured or not.
None == ""

Ch(text, i) == SubSeq(text, i, i)

DigitChars == <<"0", "1", "2", "3", "4", "5", "6", "7", "8", "9">>

Digits == {DigitChars[k] : k \in 1..10}

LowerLetters ==
    {"a", "b", "c", "d", "e", "f", "g", "h", "i", "j", "k", "l", "m",
     "n", "o", "p", "q", "r", "s", "t", "u", "v", "w", "x", "y", "z"}

UpperLetters ==
    {"A", "B", "C", "D", "E", "F", "G", "H", "I", "J", "K", "L", "M",
     "N", "O", "P", "Q", "R", "S", "T", "U", "V", "W", "X", "Y", "Z"}

\* \w
WordChars == Digits \cup LowerLetters \cup UpperLetters \cup {"_"}

\* \s
Whitespace == {" ", "\t", "\n"}

WordBoundary == [kind |-> "wb"]

NotWordAhead == [kind |-> "nla"]

Class(set, min, max, group) ==
    [kind |-> "cls", neg |-> FALSE, set |-> set, min |-> min, max |-> max,
     lazy |-> FALSE, group |-> group]

\* \d{min,max}, captured as `group`
D(min, max, group) == Class(Digits, min, max, group)

\* [_\s-]*
Separators == Class({"_", "-"} \cup Whitespace, 0, -1, "")

\* \s*
Spaces == Class(Whitespace, 0, -1, "")

\* .{0,40}?
Gap ==
    [kind |-> "cls", neg |-> TRUE, set |-> {"\n"}, min |-> 0, max |-> 40,
     lazy |-> TRUE, group |-> ""]

\* One character under re.IGNORECASE.
One(set) == Class(set, 1, 1, "")

\* Participant, under re.IGNORECASE: the characters each position accepts.
ParticipantWord ==
    <<[kind |-> "word",
       letters |-> <<{"p", "P"}, {"a", "A"}, {"r", "R"}, {"t", "T"},
                     {"i", "I"}, {"c", "C"}, {"i", "I"}, {"p", "P"},
                     {"a", "A"}, {"n", "N"}, {"t", "T"}>>]>>

\* Participant\s*(?P<participant>\d{1,3})(?![\w])
ParticipantNumber ==
    ParticipantWord \o <<Spaces, D(1, 3, "participant"), NotWordAhead>>

USER_ID_PATTERN ==
    <<WordBoundary, D(2, 2, "day"), D(2, 2, "month"), D(4, 4, "year"),
      Separators, D(2, 2, "hour"), D(2, 2, "minute"), Separators>>
        \o ParticipantNumber

ALT_USER_ID_PATTERNS ==
    << <<WordBoundary, D(2, 2, "day"), D(2, 2, "month"), D(4, 4, "year"),
         Separators, D(2, 2, "hour"), One({":", "h", "H"}), D(2, 2, "minute"),
         Separators>> \o ParticipantNumber,
       <<WordBoundary>> \o ParticipantNumber
         \o <<Separators, D(2, 2, "day"), D(2, 2, "month"), D(4, 4, "year"),
              Separators, D(2, 2, "hour"), D(2, 2, "minute"), WordBoundary>>,
       <<WordBoundary, D(1, 2, "day"), One({"/", "-"}), D(1, 2, "month"),
         One({"/", "-"}), D(2, 4, "year"), Gap, D(1, 2, "hour"),
         One({":", ".", "h", "H"}), D(2, 2, "minute"), Gap>>
         \o ParticipantNumber,
       <<WordBoundary>> \o ParticipantNumber
         \o <<Gap, D(1, 2, "day"), One({"/", "-"}), D(1, 2, "month"),
              One({"/", "-"}), D(2, 4, "year"), Gap, D(1, 2, "hour"),
              One({":", ".", "h", "H"}), D(2, 2, "minute")>> >>

NoGroups ==
    [day |-> "", month |-> "", year |-> "", hour |-> "", minute |-> "",
     participant |-> ""]

NoMatch == [ok |-> FALSE, groups |-> NoGroups]

IsWordAt(text, i) == i >= 1 /\ i <= Len(text) /\ Ch(text, i) \in WordChars

InClass(item, c) == (c \in item.set) # item.neg

\* The longest run of characters of the item's class at pos, up to its max.
RunLength(item, text, pos) ==
    LET rest == Len(text) - pos + 1
        lim == IF item.max < 0 THEN rest ELSE Min(item.max, rest)
    IN  CHOOSE n \in 0..lim :
            /\ \A j \in 0..(n - 1) : InClass(item, Ch(text, pos + j))
            /\ n = lim \/ ~InClass(item, Ch(text, pos + n))

\* The numbers of characters the item can take at pos: 0 for an assertion
\* that holds, the length of the word, min..run for a repeated class.
Takes(item, text, pos) ==
    IF item.kind = "wb"
    THEN IF IsWordAt(text, pos - 1) # IsWordAt(text, pos) THEN {0} ELSE {}
    ELSE IF item.kind = "nla"
    THEN IF IsWordAt(text, pos) THEN {} ELSE {0}
    ELSE IF item.kind = "word"
    THEN IF /\ pos + Len(item.letters) - 1 <= Len(text)
            /\ \A j \in DOMAIN item.letters :
                  Ch(text, pos + j - 1) \in item.letters[j]
         THEN {Len(item.letters)}
         ELSE {}
    ELSE item.min..RunLength(item, text, pos)

\* The groups once the item has taken n characters at pos.
Captured(item, text, pos, n, groups) ==
    IF item.kind # "cls" THEN groups
    ELSE IF item.group = "" THEN groups
    ELSE [groups EXCEPT ![item.group] = SubSeq(text, pos, pos + n - 1)]

IsLazy(item) == item.kind = "cls" /\ item.lazy

\* The ways the item continues the partial match s.  The rank records the
\* order in which the backtracking search tries them: a greedy item from its
\* longest run down, a lazy one from its shortest up.
Step(item, text, s) ==
    {[rank |-> Append(s.rank, IF IsLazy(item) THEN n ELSE 0 - n),
      pos |-> s.pos + n,
      groups |-> Captured(item, text, s.pos, n, s.groups)] :
        n \in Takes(item, text, s.pos)}

\* The partial matches of items a..b that continue those of `starts`.
RECURSIVE Paths(_, _, _, _, _)
Paths(items, text, a, b, starts) ==
    IF a = b THEN UNION {Step(items[a], text, s) : s \in starts}
    ELSE LET mid == Paths(items, text, a, (a + b) \div 2, starts)
         IN  IF mid = {} THEN {}
             ELSE Paths(items, text, (a + b) \div 2 + 1, b, mid)

\* r is tried before q.
LexLess(r, q) ==
    \E i \in DOMAIN r : r[i] < q[i] /\ \A j \in 1..(i - 1) : r[j] = q[j]

\* pattern.match(text, pos): the match at pos the backtracking search finds
\* first, the one of least rank.
MatchFrom(items, text, pos) ==
    LET ends == Paths(items, text, 1, Len(items),
                      {[rank |-> <<>>, pos |-> pos, groups |-> NoGroups]})
    IN  IF ends = {} THEN NoMatch
        ELSE [ok |-> TRUE,
              groups |-> (CHOOSE r \in ends :
                             \A q \in ends : q = r \/ LexLess(r.rank, q.rank)).groups]

\* pattern.search(text): the match at the leftmost position that has one.
SearchFrom(items, text, pos) ==
    LET at == {[p |-> p, m |-> MatchFrom(items, text, p)] :
                  p \in pos..(Len(text) + 1)}
        found == {r \in at : r.m.ok}
    IN  IF found = {} THEN NoMatch
        ELSE (CHOOSE r \in found : \A q \in found : r.p <= q.p).m

\* int(digits)
RECURSIVE ToInt(_)
ToInt(digits) ==
    IF digits = "" THEN 0
    ELSE LET last == Ch(digits, Len(digits))
             v == CHOOSE k \in 0..9 : DigitChars[k + 1] = last
         IN  10 * ToInt(SubSeq(digits, 1, Len(digits) - 1)) + v

\* str(n)
RECURSIVE ToStr(_)
ToStr(n) ==
    IF n < 10 THEN DigitChars[n + 1]
    ELSE ToStr(n \div 10) \o DigitChars[(n % 10) + 1]

\* f"{n:0{width}d}"
RECURSIVE ZeroPad(_, _)
ZeroPad(digits, width) ==
    IF Len(digits) >= width THEN digits ELSE ZeroPad("0" \o digits, width)

\* Mutant of _normalize_user_id_components: the range checks are forgotten.
NormalizeUnchecked(day, month, year, hour, minute, participant) ==
    ZeroPad(ToStr(ToInt(day)), 2) \o ZeroPad(ToStr(ToInt(month)), 2)
        \o ZeroPad(ToStr(IF Len(year) = 4 THEN ToInt(year) ELSE ToInt("20" \o year)), 4)
        \o "_" \o ZeroPad(ToStr(ToInt(hour)), 2) \o ZeroPad(ToStr(ToInt(minute)), 2)
        \o "_Participant" \o ToStr(ToInt(participant))

\* _normalize_user_id_components (normalize_components, _normalize_components)
NormalizeUserIdComponents(day, month, year, hour, minute, participant) ==
    LET day_int == ToInt(day)
        month_int == ToInt(month)
        year_int == IF Len(year) = 4 THEN ToInt(year) ELSE ToInt("20" \o year)
        hour_int == ToInt(hour)
        minute_int == ToInt(minute)
        participant_int == ToInt(participant)
    IN  IF ~(1 <= day_int /\ day_int <= 31 /\ 1 <= month_int /\ month_int <= 12)
        THEN None
        ELSE IF ~(0 <= hour_int /\ hour_int <= 23 /\ 0 <= minute_int /\ minute_int <= 59)
        THEN None
        ELSE IF participant_int <= 0 THEN None
        ELSE ZeroPad(ToStr(day_int), 2) \o ZeroPad(ToStr(month_int), 2)
                 \o ZeroPad(ToStr(year_int), 4) \o "_"
                 \o ZeroPad(ToStr(hour_int), 2) \o ZeroPad(ToStr(minute_int), 2)
                 \o "_Participant" \o ToStr(participant_int)

\* text.strip(chars)
RECURSIVE Strip(_, _)
Strip(text, chars) ==
    IF text = "" THEN ""
    ELSE IF Ch(text, 1) \in chars THEN Strip(SubSeq(text, 2, Len(text)), chars)
    ELSE IF Ch(text, Len(text)) \in chars
    THEN Strip(SubSeq(text, 1, Len(text) - 1), chars)
    ELSE text

\* `for pattern in [USER_ID_PATTERN, *ALT_USER_ID_PATTERNS]`, from pattern k.
RECURSIVE FirstNormalized(_, _, _)
FirstNormalized(patterns, text, k) ==
    IF k > Len(patterns) THEN None
    ELSE LET m == SearchFrom(patterns[k], text, 1)
             g == m.groups
             normalized == NormalizeUserIdComponents(g.day, g.month, g.year,
                                                     g.hour, g.minute, g.participant)
         IN  IF m.ok /\ normalized # None THEN normalized
             ELSE FirstNormalized(patterns, text, k + 1)

StrictPatterns == <<USER_ID_PATTERN>> \o ALT_USER_ID_PATTERNS

\* extract_user_id_from_message of merge_datasets.py
extract_user_id_from_message(msg) ==
    IF msg = "" THEN None
    ELSE FirstNormalized(StrictPatterns, Strip(msg, Whitespace), 1)

\* extract_user_id_from_message of process_promptdata_and_export.py and of
\* match_recovered_conversations.py
extract_user_id_strip_brackets(msg) ==
    IF msg = "" THEN None
    ELSE FirstNormalized(StrictPatterns, Strip(msg, {"[", "]", "'", "\""}), 1)

\* The messages: an identifier written in each of the five forms the
\* patterns read, with each component in and out of its range, the in-range
\* ones between each prefix and suffix, and texts without an identifier.
Days == {"05", "32"}

Months == {"12", "13"}

Years == {"2024", "24", "123"}

Hours == {"16", "24"}

Minutes == {"00", "60"}

Participants == {"2", "0"}

Written(form, d, mo, y, h, mi, p) ==
    IF form = 1 THEN d \o mo \o y \o "_" \o h \o mi \o "_Participant" \o p
    ELSE IF form = 2
    THEN d \o mo \o y \o " " \o h \o ":" \o mi \o " participant " \o p
    ELSE IF form = 3
    THEN "Participant" \o p \o "_" \o d \o mo \o y \o "_" \o h \o mi
    ELSE IF form = 4
    THEN d \o "/" \o mo \o "/" \o y \o " " \o h \o ":" \o mi \o " Participant " \o p
    ELSE "Participant " \o p \o ", " \o d \o "-" \o mo \o "-" \o y \o " " \o h \o "." \o mi

Forms == 1..5

Prefixes ==
    {"", "My ID is ", "x", "9", "_", "99992024_1600_Participant1 ", "['", "  "}

Suffixes == {"", ".", "x", "_", " ok", "']", " 7/8/2024 9:10 Participant 3"}

MessageTexts ==
    {Written(f, d, mo, y, h, mi, p) :
        f \in Forms, d \in Days, mo \in Months, y \in Years, h \in Hours,
        mi \in Minutes, p \in Participants}
    \cup {pre \o Written(f, "05", "12", "2024", "16", "00", "2") \o post :
             f \in Forms, pre \in Prefixes, post \in Suffixes}
    \cup {"", "hello", " ", "Participant 2"}

NotExtracted == [by |-> "", id |-> None]

\* stated_id = extract_user_id_from_message(first_message) of merge_datasets.py
ExtractMerge ==
    /\ stated = NotExtracted
    /\ stated' = [by |-> "merge_datasets", id |-> extract_user_id_from_message(message)]
    /\ UNCHANGED message
    /\ UNCHANGED notExtractVars

\* extracted_id = extract_user_id_from_message(first_msg) of
\* process_promptdata_and_export.py and match_recovered_conversations.py
ExtractPromptdata ==
    /\ stated = NotExtracted
    /\ stated' = [by |-> "process_promptdata",
                  id |-> extract_user_id_strip_brackets(message)]
    /\ UNCHANGED message
    /\ UNCHANGED notExtractVars

\* ------------------------------------------------- create_optimal_matching
\* start_time_unix of a survey row: 2023-11-26 12:00 and 13:00 UTC, or none.
OptSurveyTimes == {1701000000, 1701003600, NaN}

\* create_time of a conversation: 11:30 and 12:30 that day, and 8 days later.
OptConvTimes == {1700998200, 1701001800, 1701700000}

OptFinalizedTables == [1..MaxSurveys -> OptSurveyTimes]

\* get_conversation_details: create_time and is_valid of each conversation.
OptConvTables == [1..MaxConvs -> [create_time : OptConvTimes, is_valid : BOOLEAN]]

\* The two runs of the script on the same tables.
Runs == {1, 2}

\* surveys = finalized_df[start_time_unix.notna()].sort_values('start_time_unix')
RECURSIVE OptSorted(_)
OptSorted(S) ==
    IF S = {} THEN <<>>
    ELSE LET m == CHOOSE i \in S : \A j \in S :
                      \/ opt_finalized_df[i] < opt_finalized_df[j]
                      \/ (opt_finalized_df[i] = opt_finalized_df[j] /\ i <= j)
         IN  <<m>> \o OptSorted(S \ {m})

OptSurveys == OptSorted({i \in DOMAIN opt_finalized_df : ~IsNaN(opt_finalized_df[i])})

\* available_convs = set(sorted_conv_ids): the valid conversations.
ValidConvs == {c \in DOMAIN opt_conv_df : opt_conv_df[c].is_valid}

RunStart == [cursor |-> 1, matches |-> {}, available_convs |-> {}]

\* What `for conv_id in available_convs` can leave in best_conv_id.  The
\* conversation ids are strings in a set: the loop visits them in the order
\* of their hashes, which differs from one run of the interpreter to the
\* next, and `time_diff < best_time_diff` keeps the first visited of the
\* closest ones.  Any of the closest conversations within MAX_TIME_DIFF can
\* be the result.
BestConvs(survey_time, available) ==
    {c \in available :
        /\ Abs(survey_time - opt_conv_df[c].create_time) <= MAX_TIME_DIFF
        /\ \A x \in available :
              Abs(survey_time - opt_conv_df[c].create_time)
                  <= Abs(survey_time - opt_conv_df[x].create_time)}

\* One iteration of `for idx, survey in surveys.iterrows()` in run r.
OptimalStep(r) ==
    /\ opt_runs[r].cursor <= Len(OptSurveys)
    /\ LET idx == OptSurveys[opt_runs[r].cursor]
           best == BestConvs(opt_finalized_df[idx], opt_runs[r].available_convs)
       IN  \/ /\ best = {}
              /\ opt_runs' = [opt_runs EXCEPT ![r].cursor = @ + 1]
           \/ \E best_conv_id \in best :
                 opt_runs' = [opt_runs EXCEPT
                     ![r].cursor = @ + 1,
                     ![r].matches = @ \cup {<<idx, best_conv_id>>},
                     ![r].available_convs = @ \ {best_conv_id}]
    /\ UNCHANGED <<opt_finalized_df, opt_conv_df>>
    /\ UNCHANGED notOptimalVars

RunFirst == OptimalStep(1)

RunSecond == OptimalStep(2)

\* ----------------------------------------------- enhance_user_identification
\* A row is UserID, ResponseId, IPAddress (None when the cell is empty),
\* start_time_unix, UserID_Source and the participant_id it already has.
id_sources == <<"UserID", "ResponseId", "IPAddress">>

\* ' '.join(parts)
RECURSIVE Join(_)
Join(parts) ==
    IF parts = <<>> THEN ""
    ELSE IF Len(parts) = 1 THEN parts[1]
    ELSE parts[1] \o " " \o Join(Tail(parts))

\* ' '.join([str(row[col]) for col in id_sources if not pd.isna(row[col])])
IdComposite(row) ==
    Join(SelectSeq(<<row.UserID, row.ResponseId, row.IPAddress>>,
                   LAMBDA v : v # None))

\* SequenceMatcher.find_longest_match on a[alo..ahi] and b[blo..bhi]: the
\* longest common block, the one starting earliest in a and then in b.
LongestMatch(a, b, alo, ahi, blo, bhi) ==
    LET blocks == {<<i, j, n>> \in (alo..ahi) \X (blo..bhi) \X (1..(ahi - alo + 1)) :
                      /\ i + n - 1 <= ahi
                      /\ j + n - 1 <= bhi
                      /\ SubSeq(a, i, i + n - 1) = SubSeq(b, j, j + n - 1)}
    IN  IF blocks = {} THEN <<alo, blo, 0>>
        ELSE CHOOSE x \in blocks : \A y \in blocks :
                 \/ x[3] > y[3]
                 \/ x[3] = y[3] /\ x[1] < y[1]
                 \/ x[3] = y[3] /\ x[1] = y[1] /\ x[2] <= y[2]

\* The number of characters in SequenceMatcher.get_matching_blocks().
RECURSIVE Matches(_, _, _, _, _, _)
Matches(a, b, alo, ahi, blo, bhi) ==
    IF alo > ahi \/ blo > bhi THEN 0
    ELSE LET m == LongestMatch(a, b, alo, ahi, blo, bhi)
         IN  IF m[3] = 0 THEN 0
             ELSE m[3] + Matches(a, b, alo, m[1] - 1, blo, m[2] - 1)
                       + Matches(a, b, m[1] + m[3], ahi, m[2] + m[3], bhi)

\* difflib.SequenceMatcher(None, a, b).ratio() as the fraction <<2M, T>>
Ratio(a, b) == <<2 * Matches(a, b, 1, Len(a), 1, Len(b)), Len(a) + Len(b)>>

\* x > y for fractions with positive denominators
Greater(x, y) == x[1] * y[2] > y[1] * x[2]

\* The group the row joins: the first of the most similar existing groups
\* with `score > 0.8`, or 0.
BestGroup(composite, groups) ==
    LET score(g) == Ratio(composite, groups[g].key)
        similar == {g \in DOMAIN groups : Greater(score(g), <<4, 5>>)}
    IN  IF similar = {} THEN 0
        ELSE CHOOSE g \in similar : \A h \in similar :
                 \/ Greater(score(g), score(h))
                 \/ (~Greater(score(h), score(g)) /\ g <= h)

\* `for idx, row in enhanced_data.iterrows()` from row k: id_groups, in
\* insertion order.
RECURSIVE IdGroups(_, _, _)
IdGroups(data, k, groups) ==
    IF k > Len(data) THEN groups
    ELSE LET composite == IdComposite(data[k])
             best_match == BestGroup(composite, groups)
         IN  IF composite = "" THEN IdGroups(data, k + 1, groups)
             ELSE IF best_match # 0
             THEN IdGroups(data, k + 1,
                           [groups EXCEPT ![best_match].indices = Append(@, k)])
             ELSE IdGroups(data, k + 1,
                           Append(groups, [key |-> composite, indices |-> <<k>>]))

\* f"P{participant_counter:03d}"
PNumber(n) == "P" \o ZeroPad(ToStr(n), 3)

\* participant_id_enhanced: the number of the row's group, and for the rows
\* of no group the numbers after the last group, in row order.
ParticipantIdEnhanced(data, k) ==
    LET groups == IdGroups(data, 1, <<>>)
        mine == {g \in DOMAIN groups :
                    \E n \in DOMAIN groups[g].indices : groups[g].indices[n] = k}
        unassigned == {i \in DOMAIN data : IdComposite(data[i]) = ""}
    IN  IF mine # {} THEN PNumber(CHOOSE g \in mine : TRUE)
        ELSE PNumber(Len(groups) + Cardinality({i \in unassigned : i <= k}))

\* is_duplicate_enhanced: not the first row of its participant in
\* start_time_unix order.
IsDuplicateEnhanced(data, k) ==
    LET same == {i \in DOMAIN data :
                    ParticipantIdEnhanced(data, i) = ParticipantIdEnhanced(data, k)}
    IN  \E i \in same : \/ data[i].start_time_unix < data[k].start_time_unix
                        \/ (data[i].start_time_unix = data[k].start_time_unix /\ i < k)

ParticipantIdConfidence(row) ==
    IF row.UserID_Source = "Explicit" THEN 100
    ELSE IF row.UserID_Source = "Timestamp" THEN 80
    ELSE IF row.ResponseId # None THEN 60
    ELSE 40

EnhancedRow(data, k) ==
    [UserID |-> data[k].UserID,
     ResponseId |-> data[k].ResponseId,
     participant_id_original |-> data[k].participant_id,
     participant_id |-> ParticipantIdEnhanced(data, k),
     is_duplicate_enhanced |-> IsDuplicateEnhanced(data, k),
     participant_id_confidence |-> ParticipantIdConfidence(data[k])]

EnhanceUserIdentification ==
    /\ enhanced_data = <<>>
    /\ enhanced_data' = [k \in DOMAIN enh_data |-> EnhancedRow(enh_data, k)]
    /\ UNCHANGED enh_data
    /\ UNCHANGED notEnhanceVars

\* The tables read: rows of matched participants, their participant_id
\* already assigned (the UserID without its punctuation), ResponseIds distinct.
EnhanceRows ==
    {[UserID |-> u, ResponseId |-> r, IPAddress |-> ip, start_time_unix |-> t,
      UserID_Source |-> src, participant_id |-> u] :
        u \in {"U1", "X7"}, r \in {"R1", "R2", "Q4"}, ip \in {"9", None},
        t \in SurveyTimes, src \in {"Explicit", "Timestamp"}}

EnhanceTables ==
    {t \in [1..MaxSurveys -> EnhanceRows] :
        \A i, j \in 1..MaxSurveys : i # j => t[i].ResponseId # t[j].ResponseId}

IdleEnhance ==
    /\ enh_data = <<>>
    /\ enhanced_data = <<>>

\* ------------------------------------------ create_final_consolidated_dataset
\* A row of the finalized table is ResponseId, HasMatch, UserID, StartDate
\* and MatchMethod; None stands for an empty cell.  All rows have the same
\* treatment_clean.
StartsWith(text, prefix) ==
    Len(text) >= Len(prefix) /\ SubSeq(text, 1, Len(prefix)) = prefix

\* text[-8:]
Last8(text) == IF Len(text) > 8 THEN SubSeq(text, Len(text) - 7, Len(text)) ELSE text

\* The first position of ch in text from position `from` on, or 0.
IndexOf(text, ch, from) ==
    LET at == {i \in from..Len(text) : Ch(text, i) = ch}
    IN  IF at = {} THEN 0 ELSE CHOOSE i \in at : \A j \in at : i <= j

AllDigits(text) == text # "" /\ \A i \in 1..Len(text) : Ch(text, i) \in Digits

\* pd.to_datetime(row['StartDate']) on 'M/D/YYYY H:MM'; ok is FALSE when it
\* raises.
ToDatetime(text) ==
    LET s1 == IndexOf(text, "/", 1)
        s2 == IndexOf(text, "/", s1 + 1)
        sp == IndexOf(text, " ", s2 + 1)
        co == IndexOf(text, ":", sp + 1)
        part(a, b) == SubSeq(text, a, b)
    IN  IF /\ s1 > 0 /\ s2 > 0 /\ sp > 0 /\ co > 0
           /\ AllDigits(part(1, s1 - 1)) /\ AllDigits(part(s1 + 1, s2 - 1))
           /\ AllDigits(part(s2 + 1, sp - 1)) /\ AllDigits(part(sp + 1, co - 1))
           /\ AllDigits(part(co + 1, Len(text)))
        THEN [ok |-> TRUE,
              month |-> ToInt(part(1, s1 - 1)), day |-> ToInt(part(s1 + 1, s2 - 1)),
              year |-> ToInt(part(s2 + 1, sp - 1)), hour |-> ToInt(part(sp + 1, co - 1)),
              minute |-> ToInt(part(co + 1, Len(text)))]
        ELSE [ok |-> FALSE, month |-> 0, day |-> 0, year |-> 0, hour |-> 0, minute |-> 0]

\* f"{dt.day:02d}{dt.month:02d}{dt.year}_{dt.hour:02d}{dt.minute:02d}"
BaseId(dt) ==
    ZeroPad(ToStr(dt.day), 2) \o ZeroPad(ToStr(dt.month), 2) \o ToStr(dt.year)
        \o "_" \o ZeroPad(ToStr(dt.hour), 2) \o ZeroPad(ToStr(dt.minute), 2)

\* Mutant of NewSequenceCounter: the counter of the last run is carried on.
NewSequenceCounter_Carried(last) == last

\* sequence_counter = {} at the start of create_final_consolidated_dataset.
NewSequenceCounter(last) == <<>>

\* sequence_counter[base_id], 0 when absent.  The counter is a sequence of
\* <<base_id, number>> pairs.
CounterOf(counter, base_id) ==
    IF \E n \in DOMAIN counter : counter[n][1] = base_id
    THEN counter[CHOOSE n \in DOMAIN counter : counter[n][1] = base_id][2]
    ELSE 0

Increment(counter, base_id) ==
    IF CounterOf(counter, base_id) = 0 THEN Append(counter, <<base_id, 1>>)
    ELSE [n \in DOMAIN counter |->
             IF counter[n][1] = base_id THEN <<base_id, counter[n][2] + 1>>
             ELSE counter[n]]

\* get_participant_id uses the UserID of the row.
HasGoodUserID(row) ==
    row.HasMatch /\ row.UserID # None /\ ~StartsWith(row.UserID, "AutoID_")

\* get_participant_id generates the id from the survey timestamp.
FromTimestamp(row) ==
    ~HasGoodUserID(row) /\ row.StartDate # None /\ ToDatetime(row.StartDate).ok

\* get_participant_id(row) with the counter as the rows before left it.
get_participant_id(row, counter) ==
    IF HasGoodUserID(row) THEN row.UserID
    ELSE IF FromTimestamp(row)
    THEN LET base_id == BaseId(ToDatetime(row.StartDate))
         IN  base_id \o "_" \o ToStr(CounterOf(counter, base_id) + 1)
    ELSE "SURVEY_" \o Last8(row.ResponseId)

\* df.apply(get_participant_id, axis=1) from row k: the ids of the rows and
\* the counter at the end.
RECURSIVE ParticipantIDs(_, _, _, _)
ParticipantIDs(df, k, counter, ids) ==
    IF k > Len(df) THEN [ids |-> ids, counter |-> counter]
    ELSE ParticipantIDs(df, k + 1,
             IF FromTimestamp(df[k])
             THEN Increment(counter, BaseId(ToDatetime(df[k].StartDate)))
             ELSE counter,
             Append(ids, get_participant_id(df[k], counter)))

\* The characters StartDate is made of, in the order of their codes.
CharOrder ==
    <<" ", "/", "0", "1", "2", "3", "4", "5", "6", "7", "8", "9", ":">>

CharRank(c) ==
    IF \E n \in DOMAIN CharOrder : CharOrder[n] = c
    THEN CHOOSE n \in DOMAIN CharOrder : CharOrder[n] = c
    ELSE Len(CharOrder) + 1

\* a < b for strings
StrLess(a, b) ==
    \E i \in 1..Len(b) :
        /\ SubSeq(a, 1, Min(i - 1, Len(a))) = SubSeq(b, 1, i - 1)
        /\ i > Len(a) \/ CharRank(Ch(a, i)) < CharRank(Ch(b, i))

\* Row i goes before row j in sort_values(['treatment_clean', 'HasMatch',
\* 'StartDate'], ascending=[True, False, True]): the sort is stable and an
\* empty StartDate goes last.
SortsBefore(df, i, j) ==
    \/ df[i].HasMatch /\ ~df[j].HasMatch
    \/ /\ df[i].HasMatch = df[j].HasMatch
       /\ \/ df[i].StartDate # None /\ df[j].StartDate = None
          \/ /\ df[i].StartDate # None /\ df[j].StartDate # None
             /\ StrLess(df[i].StartDate, df[j].StartDate)
          \/ df[i].StartDate = df[j].StartDate /\ i < j

RECURSIVE SortedRows(_, _)
SortedRows(df, S) ==
    IF S = {} THEN <<>>
    ELSE LET m == CHOOSE i \in S : \A j \in S \ {i} : SortsBefore(df, i, j)
         IN  <<m>> \o SortedRows(df, S \ {m})

\* df_consolidated: the rows sorted, final_id renumbered, UserID left out.
Consolidated(df, ids) ==
    LET rows == SortedRows(df, DOMAIN df)
    IN  [n \in DOMAIN rows |->
            [final_id |-> n,
             ParticipantID |-> ids[rows[n]],
             ResponseId |-> df[rows[n]].ResponseId,
             HasMatch |-> df[rows[n]].HasMatch,
             MatchMethod |-> df[rows[n]].MatchMethod,
             StartDate |-> df[rows[n]].StartDate]]

MaxRuns == 2

\* One run of create_final_consolidated_dataset on the finalized table.
CreateFinalConsolidatedDataset ==
    /\ Len(cons_runs) < MaxRuns
    /\ LET got == ParticipantIDs(cons_df, 1, NewSequenceCounter(sequence_counter), <<>>)
       IN  /\ cons_runs' = Append(cons_runs, Consolidated(cons_df, got.ids))
           /\ sequence_counter' = got.counter
    /\ UNCHANGED <<cons_df, clean_runs>>
    /\ UNCHANGED notConsolidateVars

\* re.sub(r'[^a-zA-Z0-9]', '', text)
RECURSIVE AlnumOnly(_)
AlnumOnly(text) ==
    IF text = "" THEN ""
    ELSE IF Ch(text, 1) \in WordChars \ {"_"}
    THEN Ch(text, 1) \o AlnumOnly(SubSeq(text, 2, Len(text)))
    ELSE AlnumOnly(SubSeq(text, 2, Len(text)))

\* The UserID, UserID_Source and participant_id clean_dataset gives the row.
CleanIdentifiers(row) ==
    LET uid == IF row.UserID = None THEN "AutoID_" \o Last8(row.ResponseId)
               ELSE row.UserID
    IN  [ResponseId |-> row.ResponseId,
         UserID |-> uid,
         UserID_Source |-> IF StartsWith(uid, "AutoID_") THEN "Auto-generated"
                           ELSE IF row.MatchMethod = "Timestamp" THEN "Timestamp"
                           ELSE IF row.MatchMethod = "ExplicitID" THEN "Explicit"
                           ELSE "Missing",
         participant_id |-> AlnumOnly(uid),
         MatchMethod |-> row.MatchMethod]

\* One run of the identifier derivation of clean_dataset on the table.
CleanDatasetIdentifiers ==
    /\ Len(clean_runs) < MaxRuns
    /\ clean_runs' = Append(clean_runs,
                            [k \in DOMAIN cons_df |-> CleanIdentifiers(cons_df[k])])
    /\ UNCHANGED <<cons_df, cons_runs, sequence_counter>>
    /\ UNCHANGED notConsolidateVars

\* The already-matched tables read: a matched row has a MatchMethod.
ConsolidateRows(rid) ==
    {[ResponseId |-> rid, HasMatch |-> h, UserID |-> u, StartDate |-> d,
      MatchMethod |-> IF h THEN "Timestamp" ELSE None] :
        h \in BOOLEAN, u \in {None, "AutoID_9", "0512_P2"},
        d \in {"11/26/2023 12:00", "12/3/2024 7:53", None}}

ResponseIdOf(i) == "R_2YrX7B6LLgDiXa" \o ToStr(i)

ConsolidateTables ==
    {t \in [1..MaxSurveys -> UNION {ConsolidateRows(ResponseIdOf(i)) : i \in 1..MaxSurveys}] :
        \A i \in 1..MaxSurveys : t[i].ResponseId = ResponseIdOf(i)}

IdleConsolidate ==
    /\ cons_df = <<>>
    /\ cons_runs = <<>>
    /\ sequence_counter = <<>>
    /\ clean_runs = <<>>

\* ------------------------------------- extract_using_ast, extract_from_json
\* A record of the old export is a conversation_id and a payload: the mapping
\* column of the CSN file for extract_using_ast, a line of the JSON file for
\* extract_from_json.  The payload is
\*   "unparsable"    ast.literal_eval or json.loads raises on it,
\*   "scalar"        it parses, but not to a dict,
\*   "text_mapping"  the line is an object whose mapping is a string (for
\*                   extract_using_ast: the literal is a string),
\*   "dict"          the mapping is a dict of the entries.
\* An entry is "message" (a message with author role and content parts),
\* "no_message" (its message is None) or "bad_parts" (its content parts are
\* not iterable).  No record is in unified_conversation_data.csv yet.
Entry(id, kind, role, parts) ==
    [message_id |-> id, kind |-> kind, role |-> role, parts |-> parts]

\* message_text: the parts that are non-empty strings, each followed by a
\* space, stripped.
RECURSIVE JoinParts(_, _)
JoinParts(parts, k) ==
    IF k > Len(parts) THEN ""
    ELSE IF parts[k] # "" THEN parts[k] \o " " \o JoinParts(parts, k + 1)
    ELSE JoinParts(parts, k + 1)

MessageText(entry) == Strip(JoinParts(entry.parts, 1), Whitespace)

\* The loop over mapping.items() from entry k: the messages appended, and
\* whether an exception left the loop.
RECURSIVE MappingMessages(_, _, _, _)
MappingMessages(conv_id, entries, k, messages) ==
    IF k > Len(entries) THEN [raised |-> FALSE, messages |-> messages]
    ELSE IF entries[k].kind = "no_message"
    THEN MappingMessages(conv_id, entries, k + 1, messages)
    ELSE IF entries[k].kind = "bad_parts"
    THEN [raised |-> TRUE, messages |-> messages]
    ELSE IF MessageText(entries[k]) # "" /\ entries[k].role # ""
    THEN MappingMessages(conv_id, entries, k + 1,
             Append(messages,
                 [conversation_id |-> conv_id,
                  message_id |-> entries[k].message_id,
                  author_role |-> entries[k].role,
                  message_content |-> "['" \o MessageText(entries[k]) \o "']"]))
    ELSE MappingMessages(conv_id, entries, k + 1, messages)

\* extract_messages_from_mapping(mapping_str): every exception is caught and
\* the messages collected so far are returned.
extract_messages_from_mapping(record) ==
    IF record.kind = "dict"
    THEN [raised |-> FALSE,
          messages |-> MappingMessages(record.conversation_id, record.entries,
                                       1, <<>>).messages]
    ELSE [raised |-> FALSE, messages |-> <<>>]

\* extract_messages_from_conversation(conv_data) of extract_from_json: the
\* mapping of a loaded object is used as a dict, with no try.
extract_messages_from_conversation(record) ==
    IF record.kind = "dict"
    THEN MappingMessages(record.conversation_id, record.entries, 1, <<>>)
    ELSE [raised |-> TRUE, messages |-> <<>>]

\* extract_using_ast.main, one row of additional_convs.
AstRowStep ==
    /\ script = "ast"
    /\ rec_pc = "extract"
    /\ rec_cursor <= Len(payloads)
    /\ LET got == extract_messages_from_mapping(payloads[rec_cursor])
       IN  /\ rec_pc' = IF got.raised THEN "failed" ELSE "extract"
           /\ all_messages' = all_messages \o got.messages
    /\ rec_cursor' = rec_cursor + 1
    /\ UNCHANGED <<payloads, script, loaded>>
    /\ UNCHANGED notRecoverVars

\* Both scripts: the loop is over, the messages are saved.
SaveMessages ==
    /\ rec_pc = "extract"
    /\ rec_cursor > (IF script = "ast" THEN Len(payloads) ELSE Len(loaded))
    /\ rec_pc' = "done"
    /\ UNCHANGED <<payloads, script, rec_cursor, loaded, all_messages>>
    /\ UNCHANGED notRecoverVars

\* json.loads(line) does not raise.
LineParses(record) == record.kind # "unparsable"

\* extract_from_json.main, one line of the JSON file.
JsonLoadLine ==
    /\ script = "json"
    /\ rec_pc = "load"
    /\ rec_cursor <= Len(payloads)
    /\ loaded' = IF LineParses(payloads[rec_cursor])
                 THEN Append(loaded, payloads[rec_cursor])
                 ELSE loaded
    /\ rec_cursor' = rec_cursor + 1
    /\ UNCHANGED <<payloads, script, rec_pc, all_messages>>
    /\ UNCHANGED notRecoverVars

\* extract_from_json.main, the loop finding the additional conversations:
\* conv.get is called on every loaded value.
JsonFindAdditional ==
    /\ script = "json"
    /\ rec_pc = "load"
    /\ rec_cursor > Len(payloads)
    /\ rec_pc' = IF \E k \in DOMAIN loaded : loaded[k].kind = "scalar"
                 THEN "failed" ELSE "extract"
    /\ rec_cursor' = 1
    /\ UNCHANGED <<payloads, script, loaded, all_messages>>
    /\ UNCHANGED notRecoverVars

\* extract_from_json.main, one additional conversation.
JsonExtractStep ==
    /\ script = "json"
    /\ rec_pc = "extract"
    /\ rec_cursor <= Len(loaded)
    /\ LET got == extract_messages_from_conversation(loaded[rec_cursor])
       IN  /\ rec_pc' = IF got.raised THEN "failed" ELSE "extract"
           /\ all_messages' = IF got.raised THEN all_messages
                              ELSE all_messages \o got.messages
    /\ rec_cursor' = rec_cursor + 1
    /\ UNCHANGED <<payloads, script, loaded>>
    /\ UNCHANGED notRecoverVars

\* The mappings of well-formed conversations.
SoundMappings ==
    {<<Entry("m1", "message", "user", <<"hei">>)>>,
     <<Entry("m0", "no_message", "", <<>>),
       Entry("m1", "message", "user", <<"hei", "", "du">>),
       Entry("m2", "message", "assistant", <<"saluton">>)>>,
     <<Entry("m1", "message", "system", <<"">>),
       Entry("m2", "message", "user", <<"login">>)>>}

\* The payloads one record may have.
SuspectPayloads ==
    {[kind |-> "unparsable", entries |-> <<>>],
     [kind |-> "scalar", entries |-> <<>>],
     [kind |-> "text_mapping", entries |-> <<>>],
     [kind |-> "dict", entries |-> <<>>],
     [kind |-> "dict",
      entries |-> <<Entry("m1", "message", "user", <<"hei">>),
                    Entry("m2", "bad_parts", "assistant", <<>>)>>]}
        \cup {[kind |-> "dict", entries |-> m] : m \in SoundMappings}

Record(i, payload) ==
    [conversation_id |-> "c" \o ToStr(i), kind |-> payload.kind,
     entries |-> payload.entries]

\* The exports read: every record well-formed but one, which has any payload.
RecoverExports ==
    UNION {{[i \in 1..MaxConvs |->
                Record(i, IF i = at THEN suspect ELSE sound[i])] :
               suspect \in SuspectPayloads,
               sound \in [1..MaxConvs -> {[kind |-> "dict", entries |-> m] :
                                             m \in SoundMappings}]} :
           at \in 1..MaxConvs}

IdleRecover ==
    /\ payloads = <<>>
    /\ script = "none"
    /\ rec_pc = "done"
    /\ rec_cursor = 1
    /\ loaded = <<>>
    /\ all_messages = <<>>

\* ---------------------------------------------------------- specifications
IdleAlign ==
    /\ survey_data = <<>>
    /\ conv_data = <<>>
    /\ result_data = <<>>
    /\ pc = "idle"
    /\ cursor = 1
    /\ order = <<>>
    /\ unmatched_conv_ids = <<>>
    /\ cleaned_data = <<>>
    /\ final_data = <<>>
    /\ df_unified = <<>>

IdleConfidence == scored = NotScored

IdleRematch ==
    /\ finalized_df = <<>>
    /\ conv_df = <<>>
    /\ rm_pc = "idle"
    /\ tier = 1
    /\ rm_cursor = 1
    /\ current_unmatched = <<>>
    /\ current_available = <<>>
    /\ all_new_matches = <<>>

IdlePrompt ==
    /\ unified_df = <<>>
    /\ all_conversations = <<>>
    /\ pd_pc = "idle"
    /\ pd_cursor = 1
    /\ matches = <<>>
    /\ matched_conv_ids = {}
    /\ matched_response_ids = {}
    /\ updated_df = <<>>

\* The survey tables read: ResponseIds are distinct.
SurveyTables ==
    {t \in [1..MaxSurveys -> [ResponseId : ResponseIds, start : SurveyTimes]] :
        \A i, j \in 1..MaxSurveys : i # j => t[i].ResponseId # t[j].ResponseId}

ConvTables == [1..MaxConvs -> [create_time : ConvTimes, msg : Messages]]

IdleMetrics ==
    /\ conv_messages = <<>>
    /\ row_metrics = NoMetrics
    /\ stats = NoMetrics

IdleFix ==
    /\ fix_finalized_df = <<>>
    /\ fix_conv_df = <<>>
    /\ fix_pc = "idle"
    /\ cross_date_matches = <<>>
    /\ fix_cursor = 1
    /\ fixes = <<>>
    /\ finalized_updated = <<>>

IdleExtract ==
    /\ message = ""
    /\ stated = NotExtracted

IdleOptimal ==
    /\ opt_finalized_df = <<>>
    /\ opt_conv_df = <<>>
    /\ opt_runs = <<>>

\* merge_datasets.py: align_datasets, then clean_dataset.
Init ==
    /\ survey_data \in SurveyTables
    /\ conv_data \in ConvTables
    /\ result_data = [i \in 1..MaxSurveys |-> EmptyRow]
    /\ pc = "explicit"
    /\ cursor = 1
    /\ order = <<>>
    /\ unmatched_conv_ids = <<>>
    /\ cleaned_data = <<>>
    /\ final_data = <<>>
    /\ df_unified = <<>>
    /\ IdleConfidence /\ IdleRematch /\ IdlePrompt /\ IdleMetrics /\ IdleFix
    /\ IdleExtract
    /\ IdleOptimal
    /\ IdleEnhance
    /\ IdleConsolidate
    /\ IdleRecover

Next ==
    \/ ExplicitStep
    \/ TimestampBegin
    \/ SameDateStep
    \/ SecondPassBegin
    \/ SecondPassStep
    \/ CleanDataset
    \/ GenerateFinalDataset
    \/ CreateUnified

Spec == Init /\ [][Next]_vars

\* The three confidence formulas, each on the deltas it can be given.
InitConfidence ==
    IdleAlign /\ IdleConfidence /\ IdleRematch /\ IdlePrompt /\ IdleMetrics /\ IdleFix
        /\ IdleExtract
        /\ IdleOptimal
        /\ IdleEnhance
        /\ IdleConsolidate
        /\ IdleRecover

NextConfidence ==
    \/ ScoreCleanDataset
    \/ ScoreOptimalMatching
    \/ ScoreExtendedTimestamp

SpecConfidence == InitConfidence /\ [][NextConfidence]_vars

\* aggressive_rematching.main or match_by_extended_timestamp on one pair of
\* input tables.
InitRematch ==
    /\ finalized_df \in FinalizedTables
    /\ conv_df \in RematchConvTables
    /\ rm_pc \in {"tier_begin", "extended_begin"}
    /\ tier = 1
    /\ rm_cursor = 1
    /\ current_unmatched = <<>>
    /\ current_available = <<>>
    /\ all_new_matches = <<>>
    /\ IdleAlign /\ IdleConfidence /\ IdlePrompt /\ IdleMetrics /\ IdleFix
    /\ IdleExtract
    /\ IdleOptimal
    /\ IdleEnhance
    /\ IdleConsolidate
    /\ IdleRecover

NextRematch ==
    \/ TierBegin
    \/ TierConvStep
    \/ TierEnd
    \/ ExtendedBegin
    \/ ExtendedStep
    \/ ExtendedEnd

SpecRematch == InitRematch /\ [][NextRematch]_vars

\* The script runs to its end: a step that can be taken is taken.
FairSpecRematch == SpecRematch /\ WF_vars(NextRematch)

\* process_promptdata_and_export.main on one unified table and one list of
\* extracted conversations.
InitPromptdata ==
    /\ unified_df \in UnifiedTables
    /\ all_conversations \in PromptConversations
    /\ pd_pc = "match"
    /\ pd_cursor = 1
    /\ matches = <<>>
    /\ matched_conv_ids = {}
    /\ matched_response_ids = {}
    /\ updated_df = <<>>
    /\ IdleAlign /\ IdleConfidence /\ IdleRematch /\ IdleMetrics /\ IdleFix
    /\ IdleExtract
    /\ IdleOptimal
    /\ IdleEnhance
    /\ IdleConsolidate
    /\ IdleRecover

NextPromptdata ==
    \/ PromptConvStep
    \/ UpdateUnified

SpecPromptdata == InitPromptdata /\ [][NextPromptdata]_vars

\* The two aggregators on the messages of one conversation.
InitMetrics ==
    /\ conv_messages \in MessageLists
    /\ row_metrics = NoMetrics
    /\ stats = NoMetrics
    /\ IdleAlign /\ IdleConfidence /\ IdleRematch /\ IdlePrompt /\ IdleFix
    /\ IdleExtract
    /\ IdleOptimal
    /\ IdleEnhance
    /\ IdleConsolidate
    /\ IdleRecover

NextMetrics ==
    \/ ExtractConversationMetrics
    \/ CalculateConversationStats

SpecMetrics == InitMetrics /\ [][NextMetrics]_vars

\* fix_cross_date_mismatches.main on one finalized table and its
\* conversations.
InitFix ==
    /\ fix_finalized_df \in FixFinalizedTables
    /\ fix_conv_df \in FixConvTables
    /\ \A i \in DOMAIN fix_finalized_df :
          fix_finalized_df[i].conversation_id # NoConv =>
              fix_finalized_df[i].MessageCount
                  = fix_conv_df[fix_finalized_df[i].conversation_id].MessageCount
    /\ fix_pc = "find"
    /\ cross_date_matches = <<>>
    /\ fix_cursor = 1
    /\ fixes = <<>>
    /\ finalized_updated = <<>>
    /\ IdleAlign /\ IdleConfidence /\ IdleRematch /\ IdlePrompt /\ IdleMetrics
    /\ IdleExtract
    /\ IdleOptimal
    /\ IdleEnhance
    /\ IdleConsolidate
    /\ IdleRecover

NextFix ==
    \/ FindCrossDate
    \/ FixSearchStep
    \/ ApplyAndSave

SpecFix == InitFix /\ [][NextFix]_vars

\* merge_datasets.py on tables with malformed timestamps: a StartDate that
\* convert_qualtrics_time_to_unix turns into NaN, a create_time that is empty
\* (NaN) or not a number.
MalformedSurveyTimes == {1701000000, NaN}

MalformedConvTimes == {1701000900, NaN, NonNumeric}

MalformedSurveyTables ==
    {t \in [1..MaxSurveys -> [ResponseId : ResponseIds, start : MalformedSurveyTimes]] :
        \A i, j \in 1..MaxSurveys : i # j => t[i].ResponseId # t[j].ResponseId}

MalformedConvTables ==
    [1..MaxConvs -> [create_time : MalformedConvTimes, msg : {"hello", "My ID is 1"}]]

InitMalformed ==
    /\ survey_data \in MalformedSurveyTables
    /\ conv_data \in MalformedConvTables
    /\ result_data = [i \in 1..MaxSurveys |-> EmptyRow]
    /\ pc = "explicit"
    /\ cursor = 1
    /\ order = <<>>
    /\ unmatched_conv_ids = <<>>
    /\ cleaned_data = <<>>
    /\ final_data = <<>>
    /\ df_unified = <<>>
    /\ IdleConfidence /\ IdleRematch /\ IdlePrompt /\ IdleMetrics /\ IdleFix
    /\ IdleExtract
    /\ IdleOptimal
    /\ IdleEnhance
    /\ IdleConsolidate
    /\ IdleRecover

NextMalformed ==
    \/ ExplicitStep
    \/ TimestampAbort
    \/ TimestampBegin
    \/ SameDateStep
    \/ SecondPassBegin
    \/ SecondPassStep
    \/ CleanDataset
    \/ GenerateFinalDataset
    \/ CreateUnified

SpecMalformed == InitMalformed /\ [][NextMalformed]_vars

\* The strict extractor applied to one message: any text is a message.
InitExtract ==
    /\ message \in MessageTexts
    /\ stated = NotExtracted
    /\ IdleAlign /\ IdleConfidence /\ IdleRematch /\ IdlePrompt /\ IdleMetrics
    /\ IdleFix
    /\ IdleOptimal
    /\ IdleEnhance
    /\ IdleConsolidate
    /\ IdleRecover

NextExtract ==
    \/ ExtractMerge
    \/ ExtractPromptdata

SpecExtract == InitExtract /\ [][NextExtract]_vars

\* rematch_with_unix_time.create_optimal_matching, run twice on the same
\* tables.
InitOptimal ==
    /\ opt_finalized_df \in OptFinalizedTables
    /\ opt_conv_df \in OptConvTables
    /\ opt_runs = [r \in Runs |-> [RunStart EXCEPT !.available_convs = ValidConvs]]
    /\ IdleAlign /\ IdleConfidence /\ IdleRematch /\ IdlePrompt /\ IdleMetrics
    /\ IdleFix /\ IdleExtract
    /\ IdleEnhance
    /\ IdleConsolidate
    /\ IdleRecover

NextOptimal ==
    \/ RunFirst
    \/ RunSecond

SpecOptimal == InitOptimal /\ [][NextOptimal]_vars

\* enhance_dataset.enhance_user_identification on one table.
InitEnhance ==
    /\ enh_data \in EnhanceTables
    /\ enhanced_data = <<>>
    /\ IdleAlign /\ IdleConfidence /\ IdleRematch /\ IdlePrompt /\ IdleMetrics
    /\ IdleFix /\ IdleExtract /\ IdleOptimal
    /\ IdleConsolidate
    /\ IdleRecover

NextEnhance == EnhanceUserIdentification

SpecEnhance == InitEnhance /\ [][NextEnhance]_vars

\* create_final_consolidated_dataset and the identifier derivation of
\* clean_dataset, each run twice on the same table.
InitConsolidate ==
    /\ cons_df \in ConsolidateTables
    /\ cons_runs = <<>>
    /\ sequence_counter = <<>>
    /\ clean_runs = <<>>
    /\ IdleAlign /\ IdleConfidence /\ IdleRematch /\ IdlePrompt /\ IdleMetrics
    /\ IdleFix /\ IdleExtract /\ IdleOptimal /\ IdleEnhance
    /\ IdleRecover

NextConsolidate ==
    \/ CreateFinalConsolidatedDataset
    \/ CleanDatasetIdentifiers

SpecConsolidate == InitConsolidate /\ [][NextConsolidate]_vars

\* extract_using_ast or extract_from_json on an export with one record of
\* any payload.
InitRecover ==
    /\ payloads \in RecoverExports
    /\ script \in {"ast", "json"}
    /\ rec_pc = IF script = "ast" THEN "extract" ELSE "load"
    /\ rec_cursor = 1
    /\ loaded = <<>>
    /\ all_messages = <<>>
    /\ IdleAlign /\ IdleConfidence /\ IdleRematch /\ IdlePrompt /\ IdleMetrics
    /\ IdleFix /\ IdleExtract /\ IdleOptimal /\ IdleEnhance /\ IdleConsolidate

NextRecover ==
    \/ AstRowStep
    \/ JsonLoadLine
    \/ JsonFindAdditional
    \/ JsonExtractStep
    \/ SaveMessages

SpecRecover == InitRecover /\ [][NextRecover]_vars

\* ------------------------------------------------------------------ claims
Matched(i) == result_data[i].conversation_id # NoConv

\* The time between a survey's start and a conversation's creation.
Delta(i, c) == Abs(survey_data[i].start - conv_data[c].create_time)

\* The step accepts the timestamp match of row i.
AcceptsTimestamp(i) ==
    /\ pc \in {"same_date", "second_pass"}
    /\ ~Matched(i)
    /\ result_data'[i].conversation_id # NoConv

\* C1: after match_by_explicit_id and match_by_timestamp have run, no
\* conversation_id is attached to more than one survey row.
C1_OneConversationPerRow ==
    pc = "done" =>
        \A i, j \in SurveyIdx :
            (i # j /\ Matched(i)) =>
                result_data[i].conversation_id # result_data[j].conversation_id

\* Both phases have matched a row, each to its own conversation.
C1_Witness ==
    /\ pc = "done"
    /\ \E i, j \in SurveyIdx :
          /\ result_data[i].MatchMethod = "ExplicitID"
          /\ result_data[j].MatchMethod = "Timestamp"
          /\ DateOf(survey_data[i].start) = DateOf(survey_data[j].start)

\* A step of match_by_explicit_id leaves every matched row as it is.
ExplicitStepKeepsMatches ==
    pc = "explicit" =>
          \A i \in SurveyIdx : Matched(i) => result_data'[i] = result_data[i]

\* C4: within match_by_explicit_id a row matched by explicit identifier is
\* out of candidacy: a later conversation of the pass whose identifier also
\* matches the row does not replace its conversation_id, create_time or UserID.
C4_ExplicitMatchNotReplaced == [][ExplicitStepKeepsMatches]_vars

\* A step of match_by_timestamp leaves the explicit matches and their
\* conversations alone.
TimestampStepKeepsExplicit ==
    pc \in {"same_date", "second_pass"} =>
          \A i \in SurveyIdx :
              result_data[i].MatchMethod = "ExplicitID" =>
                  /\ result_data'[i] = result_data[i]
                  /\ \A j \in SurveyIdx \ {i} :
                        result_data'[j].conversation_id
                            # result_data[i].conversation_id

\* C5: match_by_timestamp only fills in what is unmatched: a row matched in the
\* explicit-identifier phase keeps its conversation_id, create_time, UserID
\* and MatchMethod, and no conversation used by an explicit match is given to
\* another row.
C5_TimestampKeepsExplicit == [][TimestampStepKeepsExplicit]_vars

\* A row matched by explicit identifier has seen another row of the same day
\* matched by timestamp while a conversation was still free.
C5_Witness ==
    /\ pc = "second_pass"
    /\ \E i, j \in SurveyIdx :
          /\ result_data[i].MatchMethod = "ExplicitID"
          /\ result_data[j].MatchMethod = "Timestamp"
          /\ survey_data[i].start = survey_data[j].start

\* The accepted pair is the closest of all free pairs.
AcceptsGlobalSmallest ==
    \A i \in SurveyIdx :
          AcceptsTimestamp(i) =>
              \A s \in SurveyIdx : \A k \in 1..Len(unmatched_conv_ids) :
                  LET c == unmatched_conv_ids[k]
                  IN  (~Matched(s) /\ Delta(s, c) <= TIMESTAMP_TOLERANCE) =>
                          Delta(s, c) >= Delta(i, result_data'[i].conversation_id)

\* C6 as claimed: when match_by_timestamp accepts a pair with delta d, no pair
\* of a still-unmatched survey and a still-free conversation within the
\* tolerance has a smaller delta.
C6_GlobalSmallestDelta == [][AcceptsGlobalSmallest]_vars

\* The accepted conversation is the closest one offered to the survey.
AcceptsClosestForSurvey ==
    \A i \in SurveyIdx :
          AcceptsTimestamp(i) =>
              \A k \in 1..Len(unmatched_conv_ids) :
                  LET c == unmatched_conv_ids[k]
                  IN  (pc = "same_date" =>
                          DateOf(conv_data[c].create_time)
                              = DateOf(survey_data[i].start))
                      => Delta(i, c) >= Delta(i, result_data'[i].conversation_id)

\* C6 as amended: when match_by_timestamp accepts a pair (survey, conversation)
\* with delta d, no conversation that is still free and offered to that
\* survey (created on the survey's start date in the same-date pass, any free
\* conversation in the second pass) is closer to that survey than d.
C6_ClosestForTheSurvey == [][AcceptsClosestForSurvey]_vars

\* A survey was offered two free conversations of its day at different
\* distances and has been matched.
C6_Witness ==
    /\ pc = "same_date"
    /\ \E i \in SurveyIdx : \E c \in ConvIdx :
          /\ result_data[i].MatchMethod = "Timestamp"
          /\ c # result_data[i].conversation_id
          /\ \A j \in SurveyIdx : result_data[j].conversation_id # c
          /\ DateOf(conv_data[c].create_time) = DateOf(survey_data[i].start)
          /\ Delta(i, c) > Delta(i, result_data[i].conversation_id)

\* C7: every row labelled MatchMethod = 'Timestamp' has
\* |start_time_unix - create_time| <= 86400, in both passes; a survey with no
\* conversation within the tolerance is not matched by timestamp.
C7_TimestampWithinTolerance ==
    \A i \in SurveyIdx :
        /\ result_data[i].MatchMethod = "Timestamp" =>
              Abs(survey_data[i].start - result_data[i].create_time) <= 86400
        /\ (\A c \in ConvIdx : Delta(i, c) > 86400) =>
              result_data[i].MatchMethod # "Timestamp"

\* The second pass has matched a survey to a conversation of another day, and
\* a survey with every conversation out of tolerance has ended unmatched.
C7_Witness ==
    /\ pc = "done"
    /\ \E i, j \in SurveyIdx :
          /\ ~Matched(i)
          /\ \A c \in ConvIdx : Delta(i, c) > 86400
          /\ result_data[j].MatchMethod = "Timestamp"
          /\ DateOf(result_data[j].create_time) # DateOf(survey_data[j].start)

\* C8: a conversation whose only message is the literal text "login" is never
\* the conversation_id of an accepted match.
C8_LoginNeverMatched ==
    \A i \in SurveyIdx :
        Matched(i) => conv_data[result_data[i].conversation_id].msg # "login"

\* C9: every match_confidence the code computes (clean_dataset,
\* create_optimal_matching, match_by_extended_timestamp) lies in [0, 100], and
\* of two matches scored by the same function the one with the smaller or
\* equal time delta never gets the lower confidence.
C9_ConfidenceBoundedMonotone ==
    /\ 0 <= scored.c1 /\ scored.c1 <= 100 * scored.unit
    /\ 0 <= scored.c2 /\ scored.c2 <= 100 * scored.unit
    /\ (~IsNaN(scored.d1) /\ ~IsNaN(scored.d2) /\ scored.d1 <= scored.d2) =>
          scored.c1 >= scored.c2

\* match_by_extended_timestamp has scored a close match above a match whose
\* score is at the floor.
C9_Witness ==
    /\ scored.fn = "match_by_extended_timestamp"
    /\ scored.d1 = 900 /\ scored.d2 = 172800
    /\ scored.c1 = 59100 /\ scored.c2 = 0

\* C10 as claimed: the confidence of a timestamp match is
\* clamp(100 - 100 * time_delta / 3600, 0, 100); start 1701000000 matched to
\* create_time 1701000900 gets MatchMethod = Timestamp and confidence 75.0.
C10_OneHourScale ==
    pc = "done" =>
        \A i \in SurveyIdx :
            result_data[i].MatchMethod = "Timestamp" =>
                /\ cleaned_data[i].match_confidence
                      = Max(0, Min(10000,
                            10000 - RoundDiv(10000 * cleaned_data[i].timestamp_diff, 3600)))
                /\ (survey_data[i].start = 1701000000
                    /\ result_data[i].create_time = 1701000900) =>
                        cleaned_data[i].match_confidence = 7500

\* C10 as amended: the confidence of a timestamp match is
\* 100 - time_delta / 8640 rounded to two decimals (reference scale
\* TIMESTAMP_TOLERANCE / 10); start 1701000000 matched to create_time
\* 1701000900 gets MatchMethod = Timestamp and confidence 99.9.
C10_TenthOfToleranceScale ==
    pc = "done" =>
        \A i \in SurveyIdx :
            result_data[i].MatchMethod = "Timestamp" =>
                LET d == Abs(survey_data[i].start - result_data[i].create_time)
                    conf == cleaned_data[i].match_confidence
                IN  /\ 2 * Abs(8640 * conf - (86400000 - 100 * d)) <= 8640
                    /\ (survey_data[i].start = 1701000000
                        /\ result_data[i].create_time = 1701000900) => conf = 9990

\* The survey starting at 1701000000 is matched by timestamp to the
\* conversation created at 1701000900, whose first message states an
\* identifier that is not the survey's.
C10_Witness ==
    /\ pc = "done"
    /\ \E i \in SurveyIdx :
          /\ survey_data[i].start = 1701000000
          /\ result_data[i].MatchMethod = "Timestamp"
          /\ result_data[i].create_time = 1701000900
          /\ result_data[i].UserID.kind = "Stated"
          /\ cleaned_data[i].timestamp_diff = 900

\* C2: in the re-matching passes that iterate over conversations (the tiers
\* loop of aggressive_rematching, match_by_extended_timestamp) no ResponseId
\* is in more than one accepted new match.
C2_ResponseMatchedOnce ==
    \A k, l \in DOMAIN all_new_matches :
        k # l => all_new_matches[k].ResponseId # all_new_matches[l].ResponseId

\* C3: after the promptdata pass has updated the unified table, no
\* conversation_id is on more than one row of the updated table, rows that
\* were matched before the pass included.
C3_ConversationOnOneRow ==
    pd_pc = "done" =>
        \A i, j \in DOMAIN updated_df :
            i # j /\ updated_df[i].conversation_id # NoConv
                => updated_df[i].conversation_id # updated_df[j].conversation_id

\* C11: every row whose MatchMethod is 'ExplicitID' ends with
\* match_confidence = 100, whatever the time between the survey start and the
\* conversation creation.
C11_ExplicitConfidence100 ==
    pc = "final" =>
        \A i \in DOMAIN final_data :
            final_data[i].MatchMethod = "ExplicitID" =>
                final_data[i].match_confidence = 100 * 100

\* C12: the consolidated output has exactly one row per input survey
\* response, in the order of the input, through the matching passes,
\* clean_dataset, generate_final_dataset and the left merge of
\* create_unified_complete_dataset, matched or not.
C12_OneRowPerResponse ==
    /\ DOMAIN result_data = SurveyIdx
    /\ pc \in {"done", "final", "unified"} => DOMAIN cleaned_data = SurveyIdx
    /\ pc \in {"final", "unified"} =>
          /\ DOMAIN final_data = SurveyIdx
          /\ \A i \in SurveyIdx : final_data[i].ResponseId = survey_data[i].ResponseId
    /\ pc = "unified" =>
          /\ DOMAIN df_unified = SurveyIdx
          /\ \A i \in SurveyIdx : df_unified[i].ResponseId = survey_data[i].ResponseId

\* The unified table is written with a matched and an unmatched response.
C12_Witness ==
    /\ pc = "unified"
    /\ \E i, j \in DOMAIN df_unified :
          /\ df_unified[i].HasMatch = TRUE
          /\ df_unified[j].HasMatch = FALSE

\* C13 as claimed: every survey row that ends the pipeline without a
\* conversation has conversation_id = null and MatchMethod = 'Unmatched' in
\* the output table.
C13_UnmatchedLabelled ==
    pc = "unified" =>
        \A i \in DOMAIN df_unified :
            df_unified[i].HasMatch = FALSE =>
                /\ df_unified[i].conversation_id = NoConv
                /\ df_unified[i].MatchMethod = "Unmatched"

\* C13 as amended: every survey row that ends the pipeline without a
\* conversation has conversation_id = null, MatchMethod = null and
\* HasMatch = False in the output table, and a data_status other than
\* 'Complete'; no row carries the label 'Unmatched'.
C13_UnmatchedIsNull ==
    pc = "unified" =>
        \A i \in DOMAIN df_unified :
            /\ df_unified[i].MatchMethod # "Unmatched"
            /\ result_data[i].conversation_id = NoConv =>
                  /\ df_unified[i].conversation_id = NoConv
                  /\ df_unified[i].MatchMethod = "None"
                  /\ df_unified[i].HasMatch = FALSE
                  /\ df_unified[i].data_status \in {"Missing conversation", "Duplicate"}

\* A survey with every conversation out of reach is in the output table.
C13_Witness ==
    /\ pc = "unified"
    /\ \E i \in DOMAIN df_unified :
          /\ result_data[i].conversation_id = NoConv
          /\ df_unified[i].ResponseId = survey_data[i].ResponseId

\* C14: for a conversation with zero user messages both aggregators
\* (extract_conversation_metrics, calculate_conversation_stats) give
\* UserMessageCount = 0 and AverageUserMessageLength = 0, likewise for zero
\* assistant messages, and no average is a division by zero.
C14_NoMessagesGiveZero ==
    \A m \in {row_metrics, stats} :
        m # NoMetrics =>
            /\ m.AverageUserMessageLength # DivisionByZero
            /\ m.AverageAIMessageLength # DivisionByZero
            /\ OfRole(conv_messages, "user") = <<>> =>
                  /\ m.UserMessageCount = 0
                  /\ m.AverageUserMessageLength = ZeroAverage
            /\ OfRole(conv_messages, "assistant") = <<>> =>
                  /\ m.AIMessageCount = 0
                  /\ m.AverageAIMessageLength = ZeroAverage

\* Both aggregators have run on a conversation with assistant messages and no
\* user message.
C14_Witness ==
    /\ row_metrics # NoMetrics /\ stats # NoMetrics
    /\ OfRole(conv_messages, "user") = <<>>
    /\ row_metrics.AIMessageCount > 0
    /\ stats.AverageAIMessageLength # ZeroAverage

\* C15: MessageCount is the total number of messages of the linked
\* conversation, whatever their role, and the two aggregators give the same
\* MessageCount for the same message list.
C15_MessageCountIsTotal ==
    /\ row_metrics # NoMetrics => row_metrics.MessageCount = Len(conv_messages)
    /\ stats # NoMetrics => stats.MessageCount = Len(conv_messages)
    /\ row_metrics # NoMetrics /\ stats # NoMetrics
          => row_metrics.MessageCount = stats.MessageCount

\* C16: in the table written by a matching or fix pass (here
\* fix_cross_date_mismatches) the metrics of a row agree with its link: a row
\* with no conversation_id has its metrics at the zero sentinel, and a row
\* with a conversation_id carries the metrics computed from that conversation.
C16_MetricsAgreeWithLink ==
    \A i \in DOMAIN finalized_updated :
        LET row == finalized_updated[i]
        IN  /\ row.conversation_id = NoConv => row.MessageCount = 0
            /\ row.conversation_id # NoConv =>
                  row.MessageCount = fix_conv_df[row.conversation_id].MessageCount

\* The text the patterns are searched in: the message as the extractor that
\* ran has stripped it.
Searched ==
    IF stated.by = "merge_datasets" THEN Strip(message, Whitespace)
    ELSE Strip(message, {"[", "]", "'", "\""})

\* The components pattern k captures in the searched text are in range.
InRange(g) ==
    /\ ToInt(g.day) \in 1..31
    /\ ToInt(g.month) \in 1..12
    /\ ToInt(g.hour) \in 0..23
    /\ ToInt(g.minute) \in 0..59
    /\ ToInt(g.participant) >= 1

Yields(k) ==
    LET m == SearchFrom(StrictPatterns[k], Searched, 1)
    IN  m.ok /\ InRange(m.groups)

Yielding == {k \in DOMAIN StrictPatterns : Yields(k)}

FirstYielding == CHOOSE k \in Yielding : \A j \in Yielding : k <= j

\* The components of a match, zero-padded and put together again.
Reassembled(g) ==
    ZeroPad(ToStr(ToInt(g.day)), 2) \o ZeroPad(ToStr(ToInt(g.month)), 2)
        \o ZeroPad(ToStr(IF Len(g.year) = 4 THEN ToInt(g.year)
                         ELSE ToInt("20" \o g.year)), 4)
        \o "_" \o ZeroPad(ToStr(ToInt(g.hour)), 2)
        \o ZeroPad(ToStr(ToInt(g.minute)), 2)
        \o "_Participant" \o ToStr(ToInt(g.participant))

\* C17: the strict extractor returns an identifier only from a pattern match
\* whose components are in range (day 1..31, month 1..12, hour 0..23, minute
\* 0..59, participant >= 1); a pattern whose match is out of range is
\* skipped and the next one is tried, so that the identifier is the one of
\* the first pattern that yields; when no pattern yields, or the text is
\* empty, the result is None.
C17_OnlyInRangeComponents ==
    stated.by # "" =>
        /\ message = "" => stated.id = None
        /\ Yielding = {} => stated.id = None
        /\ Yielding # {} =>
              stated.id = Reassembled(
                  SearchFrom(StrictPatterns[FirstYielding], Searched, 1).groups)
        /\ stated.id # None => Yielding # {}

\* An earlier pattern matched an out-of-range look-alike, and a later pattern
\* gave the identifier.
C17_Witness ==
    /\ stated.by # ""
    /\ stated.id # None
    /\ \E k \in DOMAIN StrictPatterns :
          /\ k < FirstYielding
          /\ SearchFrom(StrictPatterns[k], Searched, 1).ok

\* DDMMYYYY_HHMM_ParticipantN
IsCanonical(id) ==
    /\ Len(id) >= 26
    /\ \A i \in 1..8 : Ch(id, i) \in Digits
    /\ Ch(id, 9) = "_"
    /\ \A i \in 10..13 : Ch(id, i) \in Digits
    /\ SubSeq(id, 14, 25) = "_Participant"
    /\ \A i \in 26..Len(id) : Ch(id, i) \in Digits

\* C18: every identifier the strict extractor returns has the canonical form
\* DDMMYYYY_HHMM_ParticipantN: two-digit day and month, four-digit year,
\* underscore, two-digit hour and minute, '_Participant' and the number.
C18_CanonicalForm ==
    stated.id # None => IsCanonical(stated.id)

\* The well-formed identifiers, components in range, written into messages.
WellFormedIds == {Written(1, "05", "12", "2024", "16", "00", "2")}

\* C19: a text that contains a well-formed identifier with in-range
\* components, whatever precedes or follows it, gives exactly that
\* identifier.
C19_ContainedIdReturned ==
    stated.by = "merge_datasets" =>
        \A id \in WellFormedIds : IsSubstr(id, message) => stated.id = id

\* C20: a malformed timestamp on one record never aborts the batch:
\* match_by_timestamp runs to completion when a survey row has
\* start_time_unix = NaN or a conversation has a NaN or non-numeric
\* create_time.
C20_BatchNeverAborts == pc # "aborted"

RunDone(r) == opt_runs[r].cursor > Len(OptSurveys)

\* C21: on fixed tables in a fixed row order create_optimal_matching accepts
\* the same (ResponseId, conversation_id) pairs on every run, also when two
\* available conversations are equally close to a survey.
C21_SamePairsOnEveryRun ==
    (RunDone(1) /\ RunDone(2)) => opt_runs[1].matches = opt_runs[2].matches

\* C22: a fix pass never regresses a matched record: every survey response
\* that has a conversation_id in the table fix_cross_date_mismatches reads
\* has the same conversation_id in the table it writes.
C22_MatchedNeverRegressed ==
    finalized_updated # <<>> =>
        \A i \in DOMAIN fix_finalized_df :
            fix_finalized_df[i].conversation_id # NoConv =>
                finalized_updated[i].conversation_id
                    = fix_finalized_df[i].conversation_id

\* C28: when fix_cross_date_mismatches applies its fixes, every conversation
\* linked to a survey row in the table read is linked to exactly one row of
\* the table written.
C28_LinkedToExactlyOneRow ==
    finalized_updated # <<>> =>
        \A i \in DOMAIN fix_finalized_df :
            LET c == fix_finalized_df[i].conversation_id
            IN  c # NoConv =>
                    Cardinality({j \in DOMAIN finalized_updated :
                                    finalized_updated[j].conversation_id = c}) = 1

\* C23: a participant_id already assigned to a row is not recomputed by a
\* later step: enhance_user_identification leaves the participant_id of a
\* matched participant unchanged.
C23_ParticipantIdKept ==
    enhanced_data # <<>> =>
        \A k \in DOMAIN enh_data :
            enhanced_data[k].participant_id = enh_data[k].participant_id

\* The row of ResponseId rid in a written table.
RowOf(table, rid) == table[CHOOSE n \in DOMAIN table : table[n].ResponseId = rid]

IsSound(record) ==
    /\ record.kind = "dict"
    /\ \A k \in DOMAIN record.entries : record.entries[k].kind # "bad_parts"

\* The messages of the well-formed records from record k on.
RECURSIVE SoundMessages(_)
SoundMessages(k) ==
    IF k > Len(payloads) THEN <<>>
    ELSE IF IsSound(payloads[k])
    THEN MappingMessages(payloads[k].conversation_id, payloads[k].entries, 1, <<>>).messages
             \o SoundMessages(k + 1)
    ELSE SoundMessages(k + 1)

OfSound(m) ==
    \E k \in DOMAIN payloads :
        IsSound(payloads[k]) /\ payloads[k].conversation_id = m.conversation_id

\* C25: one corrupt or unparsable payload does not fail the extraction run:
\* no message comes from a payload that cannot be parsed, and the run ends
\* with every other conversation extracted with the messages it has when the
\* corrupt record is absent.
C25_CorruptRecordIsolated ==
    /\ rec_pc # "failed"
    /\ \A n \in DOMAIN all_messages :
           \A k \in DOMAIN payloads :
               payloads[k].kind = "unparsable" =>
                   all_messages[n].conversation_id # payloads[k].conversation_id
    /\ (script # "none" /\ rec_pc = "done") =>
           SelectSeq(all_messages, OfSound) = SoundMessages(1)

\* Every tier begins after the tier before it, and the loop ends after the
\* last tolerance.
TiersInOrder ==
    /\ (rm_pc = "tier_loop" /\ rm_pc' = "tier_begin") =>
           tier' = tier + 1 /\ tier' <= Len(AggressiveTolerances)
    /\ (rm_pc = "tier_loop" /\ rm_pc' = "done") => tier = Len(AggressiveTolerances)
    /\ rm_pc = "tier_begin" => tier' = tier /\ rm_pc' = "tier_loop"
    /\ rm_pc = "done" => rm_pc' = "done"

\* The new matches are listed tier by tier, and a ResponseId or a
\* conversation_id of one tier is in no match of a later tier.
AcceptedStayExcluded ==
    \A j, k \in DOMAIN all_new_matches :
        /\ j < k => all_new_matches[j].tolerance_used <= all_new_matches[k].tolerance_used
        /\ all_new_matches[j].tolerance_used < all_new_matches[k].tolerance_used =>
               /\ all_new_matches[j].ResponseId # all_new_matches[k].ResponseId
               /\ all_new_matches[j].conversation_id # all_new_matches[k].conversation_id

\* No step gives a conversation to a row of the finalized table: a survey
\* without a new match is still without a conversation.
UnmatchedStay ==
    \A i \in DOMAIN finalized_df :
        finalized_df[i].conversation_id = NoConv =>
            /\ i \in DOMAIN finalized_df'
            /\ finalized_df'[i] = finalized_df[i]

\* C26: the loop of aggressive_rematching tries the tiers 7, 14 and 30 days
\* once each in that order and then ends; what one tier accepted is no
\* candidate at a later tier, and a survey without a match after the last
\* tier stays unmatched.
C26_TiersOnceThenDone ==
    /\ [][TiersInOrder /\ UnmatchedStay]_vars
    /\ []AcceptedStayExcluded
    /\ <>(rm_pc = "done")

\* The loop has ended after the third tier with matches of two tiers.
C26_Witness ==
    /\ rm_pc = "done"
    /\ tier = Len(AggressiveTolerances) + 1
    /\ \E j, k \in DOMAIN all_new_matches :
           all_new_matches[j].tolerance_used < all_new_matches[k].tolerance_used

\* The free conversations of the date of row i within the tolerance.
SameDateFree(i) ==
    {unmatched_conv_ids[k] : k \in
        {k \in DOMAIN unmatched_conv_ids :
            LET c == unmatched_conv_ids[k]
            IN  /\ DateOf(conv_data[c].create_time) = DateOf(survey_data[i].start)
                /\ TimeDiff(survey_data[i].start, conv_data[c].create_time)
                       <= TIMESTAMP_TOLERANCE}}

\* In the first pass the row visited gets a conversation of its own date, the
\* closest one, whenever a free one is within the tolerance, and never one of
\* another date.
FirstPassSameDate ==
    (pc = "same_date" /\ cursor <= Len(order)) =>
        LET i == order[cursor]
            got == result_data'[i].conversation_id
        IN  /\ result_data[i].conversation_id = NoConv
            /\ got # NoConv <=> SameDateFree(i) # {}
            /\ got # NoConv =>
                   /\ got \in SameDateFree(i)
                   /\ \A c \in SameDateFree(i) :
                          TimeDiff(survey_data[i].start, conv_data[got].create_time)
                              <= TimeDiff(survey_data[i].start, conv_data[c].create_time)
            /\ \A j \in SurveyIdx \ {i} : result_data'[j] = result_data[j]

\* In the second pass only a row still unmatched after the first pass is
\* given a conversation.
SecondPassUnmatchedOnly ==
    (pc = "second_pass" /\ cursor <= Len(order)) =>
        /\ result_data[order[cursor]].conversation_id = NoConv
        /\ \A j \in SurveyIdx \ {order[cursor]} : result_data'[j] = result_data[j]

\* C27: match_by_timestamp gives priority to the same date: in the first pass
\* a survey is only offered the conversations of its own date, and a
\* conversation of another date is considered only in the second pass, for
\* the surveys still unmatched; a survey with a same-date conversation within
\* the tolerance is matched to it even when a free conversation of another
\* date is closer.
C27_SameDateFirst == [][FirstPassSameDate /\ SecondPassUnmatchedOnly]_vars

\* The first pass has matched a row to a conversation of its own date while
\* a free conversation of another date is closer.
C27_Witness ==
    /\ pc = "same_date"
    /\ \E i \in SurveyIdx :
          /\ result_data[i].MatchMethod = "Timestamp"
          /\ DateOf(result_data[i].create_time) = DateOf(survey_data[i].start)
          /\ \E k \in DOMAIN unmatched_conv_ids :
                LET c == unmatched_conv_ids[k]
                IN  /\ DateOf(conv_data[c].create_time) # DateOf(survey_data[i].start)
                    /\ TimeDiff(survey_data[i].start, conv_data[c].create_time)
                           < TimeDiff(survey_data[i].start, result_data[i].create_time)

\* The rows of final_data with the participant_id of row i.
SameParticipant(i) ==
    {j \in DOMAIN final_data : final_data[j].participant_id = final_data[i].participant_id}

\* C29: after generate_final_dataset, of the rows sharing a participant_id
\* exactly one has is_duplicate = False, one with the smallest
\* start_time_unix, and the others have is_duplicate = True and data_status
\* 'Duplicate'; a row with a unique participant_id has is_duplicate = False
\* and data_status 'Complete' with a conversation, 'Missing conversation'
\* without.
C29_OneOriginalPerParticipant ==
    \A i \in DOMAIN final_data :
        LET same == SameParticipant(i)
            originals == {j \in same : ~final_data[j].is_duplicate}
        IN  IF Cardinality(same) > 1
            THEN /\ Cardinality(originals) = 1
                 /\ \A j \in originals : \A k \in same :
                        survey_data[j].start <= survey_data[k].start
                 /\ \A j \in same \ originals :
                        /\ final_data[j].is_duplicate = TRUE
                        /\ final_data[j].data_status = "Duplicate"
            ELSE /\ final_data[i].is_duplicate = FALSE
                 /\ final_data[i].data_status =
                        IF final_data[i].conversation_id # NoConv THEN "Complete"
                        ELSE "Missing conversation"

\* Two rows of different start times share a participant_id, and a third
\* case, a row with a participant_id of its own, is covered by the tables
\* where the ids differ.
C29_Witness ==
    /\ final_data # <<>>
    /\ \E i, j \in DOMAIN final_data :
          /\ i # j
          /\ final_data[i].participant_id = final_data[j].participant_id
          /\ survey_data[i].start < survey_data[j].start
          /\ final_data[j].is_duplicate

\* C30: every match of match_by_timestamp has match_confidence >= 90 after
\* clean_dataset, so that a matched row below 80, in the medium or the low
\* bucket of the statistics, is an explicit-identifier match.
C30_TimestampConfidenceHigh ==
    /\ \A i \in DOMAIN cleaned_data :
           result_data[i].MatchMethod = "Timestamp" =>
               cleaned_data[i].match_confidence >= 90 * 100
    /\ \A i \in DOMAIN final_data :
           (final_data[i].HasMatch /\ final_data[i].match_confidence < 80 * 100) =>
               final_data[i].MatchMethod = "ExplicitID"

\* clean_dataset has scored a timestamp match of another date, more than
\* half the tolerance away, and an explicit match that is below 90.
C30_Witness ==
    /\ \E i \in DOMAIN cleaned_data :
          /\ result_data[i].MatchMethod = "Timestamp"
          /\ cleaned_data[i].timestamp_diff > TIMESTAMP_TOLERANCE \div 2
          /\ cleaned_data[i].match_confidence < 95 * 100
    /\ \E i \in DOMAIN cleaned_data :
          /\ result_data[i].MatchMethod = "ExplicitID"
          /\ cleaned_data[i].match_confidence < 90 * 100

====
